---- MODULE Spec2Model ----
(***************************************************************************)
(* BLS signatures over BN254 (brine-bn128-bls): min-sig signing, single,   *)
(* aggregate, augmented and threshold verification.                        *)
(*                                                                         *)
(* Scale of the model.  A 32-byte big-endian word (field element, scalar,  *)
(* digest, pairing result) is one byte here, so a G1 point is 2 bytes, a   *)
(* G2 point 4 bytes, a pairing pair 6 bytes.  The host oracles are the     *)
(* group y^2 = x^3 + 30 over F_43, of prime order 31 < 43, with the        *)
(* generator (1, 17); G2 is its image (x, y) -> (u^2 x, u^3 y), u = 2 + i, *)
(* in F_43[i], written c1 first.  The pairing of a*G1 and b*G2 is a*b in   *)
(* the exponent, so a product of pairings is one iff the sum of the        *)
(* products of the discrete logarithms is 0 modulo the group order.        *)
(***************************************************************************)
EXTENDS Integers, Sequences, FiniteSets, TLC

(***************************************************************************)
(* Bounds of the exploration                                               *)
(***************************************************************************)
MaxKeys == 2
MaxSigners == 2

(***************************************************************************)
(* Constants                                                               *)
(***************************************************************************)
MODULUS == 43
NORMALIZE_MODULUS == 5 * MODULUS
GROUP_ORDER == 31
BYTE == 256
FIELD_BYTES == 1

G1_TABLE == << <<1, 17>>, <<22, 33>>, <<12, 34>>, <<10, 16>>, <<6, 17>>,
               <<36, 26>>, <<16, 16>>, <<39, 40>>, <<19, 40>>, <<3, 33>>,
               <<17, 27>>, <<18, 10>>, <<2, 34>>, <<28, 40>>, <<29, 34>>,
               <<29, 9>>, <<28, 3>>, <<2, 9>>, <<18, 33>>, <<17, 16>>,
               <<3, 10>>, <<19, 3>>, <<39, 3>>, <<16, 27>>, <<36, 17>>,
               <<6, 26>>, <<10, 27>>, <<12, 9>>, <<22, 10>>, <<1, 26>> >>

G2_TABLE == << <<4, 3, 15, 34>>, <<2, 23, 19, 23>>, <<5, 36, 30, 25>>,
               <<40, 30, 4, 32>>, <<24, 18, 15, 34>>, <<15, 22, 28, 9>>,
               <<21, 5, 4, 32>>, <<27, 31, 10, 37>>, <<33, 14, 10, 37>>,
               <<12, 9, 19, 23>>, <<25, 8, 39, 11>>, <<29, 11, 24, 20>>,
               <<8, 6, 30, 25>>, <<26, 41, 10, 37>>, <<30, 1, 30, 25>>,
               <<30, 1, 13, 18>>, <<26, 41, 33, 6>>, <<8, 6, 13, 18>>,
               <<29, 11, 19, 23>>, <<25, 8, 4, 32>>, <<12, 9, 24, 20>>,
               <<33, 14, 33, 6>>, <<27, 31, 33, 6>>, <<21, 5, 39, 11>>,
               <<15, 22, 15, 34>>, <<24, 18, 28, 9>>, <<40, 30, 39, 11>>,
               <<5, 36, 13, 18>>, <<2, 23, 24, 20>>, <<4, 3, 28, 9>> >>

G1_ZERO == <<0, 0>>
G2_ZERO == <<0, 0, 0, 0>>
G2_MINUS_ONE == G2_TABLE[GROUP_ORDER - 1]
GT_ONE == <<1>>
GT_OTHER == <<0>>
DST == <<66, 76, 83, 45, 66, 78, 50, 53, 52, 45, 82, 79>>

BLSError == {"SecretKeyError", "AltBN128AddError", "AltBN128MulError",
             "AltBN128PairingError", "HashToCurveError", "BLSSigningError",
             "BLSVerificationError", "SerializationError",
             "G1PointCompressionError", "G1PointDecompressionError",
             "G2PointCompressionError", "G2PointDecompressionError"}

(***************************************************************************)
(* The host: fault names the oracle that refuses its calls, "none" when    *)
(* the host is sound.  gap counts the calls a caller has made since the    *)
(* call it remembers.                                                      *)
(***************************************************************************)
VARIABLES fault, gap

(***************************************************************************)
(* Result<T, E>                                                            *)
(***************************************************************************)
Ok(v) == [ok |-> TRUE, val |-> v, err |-> "none"]
Err(e) == [ok |-> FALSE, val |-> <<>>, err |-> e]

(* let v = value; body(v): the value is computed once, before the body.    *)
Let(value, body(_)) == CHOOSE r \in {body(v) : v \in {value}} : TRUE

(***************************************************************************)
(* Byte strings                                                            *)
(***************************************************************************)
RECURSIVE from_be_bytes(_)
from_be_bytes(bytes) ==
    IF bytes = <<>> THEN 0
    ELSE from_be_bytes(SubSeq(bytes, 1, Len(bytes) - 1)) * BYTE + bytes[Len(bytes)]

RECURSIVE to_be_bytes(_)
to_be_bytes(n) ==
    IF n = 0 THEN <<>>
    ELSE Append(to_be_bytes(n \div BYTE), n % BYTE)

Reverse(s) == [i \in 1..Len(s) |-> s[Len(s) + 1 - i]]

RECURSIVE Concat(_)
Concat(parts) ==
    IF parts = <<>> THEN <<>> ELSE Head(parts) \o Concat(Tail(parts))

(***************************************************************************)
(* Host oracles.  SHA-256 is a one-byte digest that is collision-free on   *)
(* the byte strings hashed here: distinct strings reach distinct points of *)
(* G1, as the library assumes of the real digest.                          *)
(***************************************************************************)
RECURSIVE Sha256Fold(_, _)
Sha256Fold(h, bytes) ==
    IF bytes = <<>> THEN h
    ELSE Sha256Fold((h * 22 + Head(bytes)) % 257, Tail(bytes))

hashv(parts) == << Sha256Fold(1, Concat(parts)) % BYTE >>

G1Valid(P) == P = G1_ZERO \/ \E k \in 1..(GROUP_ORDER - 1) : G1_TABLE[k] = P
G1Log(P) == IF P = G1_ZERO THEN 0
            ELSE CHOOSE k \in 1..(GROUP_ORDER - 1) : G1_TABLE[k] = P
G1Exp(k) == IF k % GROUP_ORDER = 0 THEN G1_ZERO ELSE G1_TABLE[k % GROUP_ORDER]

G2Valid(Q) == Q = G2_ZERO \/ \E k \in 1..(GROUP_ORDER - 1) : G2_TABLE[k] = Q
G2Log(Q) == IF Q = G2_ZERO THEN 0
            ELSE CHOOSE k \in 1..(GROUP_ORDER - 1) : G2_TABLE[k] = Q
G2Exp(k) == IF k % GROUP_ORDER = 0 THEN G2_ZERO ELSE G2_TABLE[k % GROUP_ORDER]

alt_bn128_addition(input) ==
    LET P == SubSeq(input, 1, 2)
        Q == SubSeq(input, 3, 4)
    IN  IF fault # "add" /\ Len(input) = 4 /\ G1Valid(P) /\ G1Valid(Q)
        THEN Ok(G1Exp(G1Log(P) + G1Log(Q)))
        ELSE Err("oracle")

alt_bn128_multiplication(input) ==
    LET P == SubSeq(input, 1, 2)
        s == from_be_bytes(SubSeq(input, 3, 3))
    IN  IF fault # "mul" /\ Len(input) = 3 /\ G1Valid(P)
        THEN Ok(G1Exp(G1Log(P) * s))
        ELSE Err("oracle")

RECURSIVE PairingSum(_, _)
PairingSum(input, n) ==
    IF n = 0 THEN 0
    ELSE PairingSum(input, n - 1)
         + G1Log(SubSeq(input, 6 * n - 5, 6 * n - 4))
           * G2Log(SubSeq(input, 6 * n - 3, 6 * n))

alt_bn128_pairing(input) ==
    LET n == Len(input) \div 6
    IN  IF /\ fault # "pairing"
           /\ Len(input) % 6 = 0
           /\ \A i \in 1..n : /\ G1Valid(SubSeq(input, 6 * i - 5, 6 * i - 4))
                              /\ G2Valid(SubSeq(input, 6 * i - 3, 6 * i))
        THEN Ok(IF PairingSum(input, n) % GROUP_ORDER = 0 THEN GT_ONE ELSE GT_OTHER)
        ELSE Err("oracle")

G1Negative(P) == P[2] > (MODULUS - P[2]) % MODULUS

alt_bn128_g1_decompress(bytes) ==
    IF fault = "g1_decompress" \/ Len(bytes) # FIELD_BYTES THEN Err("oracle")
    ELSE IF bytes = <<0>> THEN Ok(G1_ZERO)
    ELSE LET n == from_be_bytes(bytes)
             neg == n >= 128
             inf == (n % 128) >= 64
             x == n % 64
             S == {k \in 1..(GROUP_ORDER - 1) :
                       G1_TABLE[k][1] = x /\ G1Negative(G1_TABLE[k]) = neg}
         IN  IF inf THEN (IF x = 0 /\ ~neg THEN Ok(G1_ZERO) ELSE Err("oracle"))
             ELSE IF x >= MODULUS \/ S = {} THEN Err("oracle")
             ELSE Ok(G1_TABLE[CHOOSE k \in S : TRUE])

G2Negative(Q) ==
    LET n1 == (MODULUS - Q[3]) % MODULUS
        n0 == (MODULUS - Q[4]) % MODULUS
    IN  Q[3] > n1 \/ (Q[3] = n1 /\ Q[4] > n0)

(***************************************************************************)
(* The curve of G2: y^2 = x^3 + G2_COEFF_B over F_43[i], i^2 = -1, an      *)
(* element c1*i + c0 written <<c1, c0>>.  It has 1767 = 31 * 57 points;    *)
(* G2_TABLE is its subgroup of order 31.  The point at infinity is         *)
(* G2_ZERO, which is not on the affine curve.                              *)
(***************************************************************************)
G2_COEFF_B == <<30, 16>>
G2_COFACTOR == 57

FQ_INV == [a \in 1..(MODULUS - 1) |->
              CHOOSE b \in 1..(MODULUS - 1) : (a * b) % MODULUS = 1]
FqInv(a) == FQ_INV[a]
Fq2Add(a, b) == <<(a[1] + b[1]) % MODULUS, (a[2] + b[2]) % MODULUS>>
Fq2Sub(a, b) == <<(a[1] + MODULUS - b[1]) % MODULUS, (a[2] + MODULUS - b[2]) % MODULUS>>
Fq2Mul(a, b) ==
    <<(a[1] * b[2] + a[2] * b[1]) % MODULUS,
      (a[2] * b[2] + (MODULUS - a[1]) * b[1]) % MODULUS>>
Fq2Inv(a) ==
    LET n == FqInv((a[1] * a[1] + a[2] * a[2]) % MODULUS)
    IN  <<((MODULUS - a[1]) * n) % MODULUS, (a[2] * n) % MODULUS>>

Fq2Sqrts(a) ==
    LET y1of(y0) == (a[1] * FqInv((2 * y0) % MODULUS)) % MODULUS
        S0 == {y0 \in 1..(MODULUS - 1) :
                  (y0 * y0 + (MODULUS - y1of(y0)) * y1of(y0)) % MODULUS = a[2]}
        S1 == IF a[1] # 0 THEN {}
              ELSE {y1 \in 0..(MODULUS - 1) : ((MODULUS - y1) * y1) % MODULUS = a[2]}
    IN  {<<y1of(y0), y0>> : y0 \in S0} \cup {<<y1, 0>> : y1 \in S1}

G2Rhs(x) == Fq2Add(Fq2Mul(Fq2Mul(x, x), x), G2_COEFF_B)
G2X(Q) == <<Q[1], Q[2]>>
G2Y(Q) == <<Q[3], Q[4]>>
G2OnCurve(Q) ==
    \/ Q = G2_ZERO
    \/ /\ \A j \in 1..4 : Q[j] < MODULUS
       /\ Fq2Mul(G2Y(Q), G2Y(Q)) = G2Rhs(G2X(Q))

G2Add(P, Q) ==
    IF P = G2_ZERO THEN Q
    ELSE IF Q = G2_ZERO THEN P
    ELSE IF G2X(P) = G2X(Q) /\ Fq2Add(G2Y(P), G2Y(Q)) = <<0, 0>> THEN G2_ZERO
    ELSE LET l == IF P = Q
                  THEN Fq2Mul(Fq2Mul(<<0, 3>>, Fq2Mul(G2X(P), G2X(P))),
                              Fq2Inv(Fq2Mul(<<0, 2>>, G2Y(P))))
                  ELSE Fq2Mul(Fq2Sub(G2Y(Q), G2Y(P)), Fq2Inv(Fq2Sub(G2X(Q), G2X(P))))
             x3 == Fq2Sub(Fq2Sub(Fq2Mul(l, l), G2X(P)), G2X(Q))
             y3 == Fq2Sub(Fq2Mul(l, Fq2Sub(G2X(P), x3)), G2Y(P))
         IN  x3 \o y3

RECURSIVE G2Mul(_, _)
G2Mul(P, k) ==
    IF k = 0 THEN G2_ZERO
    ELSE Let(G2Mul(P, k \div 2), LAMBDA half :
         Let(G2Add(half, half), LAMBDA dbl :
         IF k % 2 = 1 THEN G2Add(dbl, P) ELSE dbl))

alt_bn128_g2_decompress(bytes) ==
    IF fault = "g2_decompress" \/ Len(bytes) # 2 * FIELD_BYTES THEN Err("oracle")
    ELSE IF bytes = <<0, 0>> THEN Ok(G2_ZERO)
    ELSE LET neg == bytes[1] >= 128
             inf == (bytes[1] % 128) >= 64
             c1 == bytes[1] % 64
             c0 == bytes[2]
             S == IF c1 >= MODULUS \/ c0 >= MODULUS THEN {}
                  ELSE {y \in Fq2Sqrts(G2Rhs(<<c1, c0>>)) :
                           G2Negative(<<c1, c0>> \o y) = neg}
         IN  IF inf THEN (IF c1 = 0 /\ c0 = 0 /\ ~neg THEN Ok(G2_ZERO) ELSE Err("oracle"))
             ELSE IF S = {} THEN Err("oracle")
             ELSE Ok(<<c1, c0>> \o (CHOOSE y \in S : TRUE))

alt_bn128_g1_compress_unsigned(bytes) ==
    IF fault = "g1_compress" \/ Len(bytes) # 2 * FIELD_BYTES THEN Err("oracle")
    ELSE IF bytes = G1_ZERO THEN Ok(<<0>>)
    ELSE Ok(<<bytes[1]>>)

alt_bn128_g1_compress(bytes) ==
    IF fault = "g1_compress" \/ Len(bytes) # 2 * FIELD_BYTES THEN Err("oracle")
    ELSE IF bytes = G1_ZERO THEN Ok(<<0>>)
    ELSE LET x == bytes[1]
             inf == (bytes[2] % 128) >= 64
             y == bytes[2] % 64
         IN  IF x >= MODULUS \/ y >= MODULUS \/ bytes[2] >= 192 THEN Err("oracle")
             ELSE IF inf THEN Ok(<<64>>)
             ELSE Ok(<<x + (IF G1Negative(<<x, y>>) THEN 128 ELSE 0)>>)

alt_bn128_g2_compress(bytes) ==
    IF Len(bytes) # 4 * FIELD_BYTES THEN Err("oracle")
    ELSE IF bytes = G2_ZERO THEN Ok(<<0, 0>>)
    ELSE LET inf == (bytes[3] % 128) >= 64
             Q == <<bytes[1], bytes[2], bytes[3] % 64, bytes[4]>>
         IN  IF (\E j \in 1..4 : Q[j] >= MODULUS) \/ bytes[3] >= 192 THEN Err("oracle")
             ELSE IF inf THEN Ok(<<64, 0>>)
             ELSE Ok(<<Q[1] + (IF G2Negative(Q) THEN 128 ELSE 0), Q[2]>>)

(***************************************************************************)
(* ark-bn254 routines used on the host side                                *)
(***************************************************************************)
Fr_deserialize_compressed(bytes) ==
    LET n == from_be_bytes(Reverse(bytes))
    IN  IF Len(bytes) = FIELD_BYTES /\ n < GROUP_ORDER THEN Ok(n) ELSE Err("ark")

G2Affine_serialize_compressed(k) ==
    IF k % GROUP_ORDER = 0 THEN <<0, 64>>
    ELSE LET Q == G2_TABLE[k % GROUP_ORDER]
         IN  <<Q[2], Q[1] + (IF G2Negative(Q) THEN 128 ELSE 0)>>

G1Affine_serialize_compressed(k) ==
    IF k % GROUP_ORDER = 0 THEN <<64>>
    ELSE LET P == G1_TABLE[k % GROUP_ORDER]
         IN  <<P[1] + (IF G1Negative(P) THEN 128 ELSE 0)>>

G2Affine_deserialize_compressed(bytes) ==
    IF Len(bytes) # 2 * FIELD_BYTES \/ bytes[2] >= 192 THEN Err("ark")
    ELSE LET neg == bytes[2] >= 128
             inf == (bytes[2] % 128) >= 64
             c1 == bytes[2] % 64
             c0 == bytes[1]
             S == IF c1 >= MODULUS \/ c0 >= MODULUS THEN {}
                  ELSE {y \in Fq2Sqrts(G2Rhs(<<c1, c0>>)) :
                           G2Negative(<<c1, c0>> \o y) = neg}
         IN  IF c1 >= MODULUS \/ c0 >= MODULUS THEN Err("ark")
             ELSE IF inf THEN Ok(G2_ZERO)
             ELSE IF S = {} THEN Err("ark")
             ELSE LET Q == <<c1, c0>> \o (CHOOSE y \in S : TRUE)
                  IN  IF G2Valid(Q) THEN Ok(Q) ELSE Err("ark")

reverse_halves(b) ==
    Reverse(SubSeq(b, 1, Len(b) \div 2)) \o Reverse(SubSeq(b, Len(b) \div 2 + 1, Len(b)))

G2Affine_deserialize_with_mode(bytes) ==
    LET inf == (bytes[4] % 128) >= 64
        Q == reverse_halves(<<bytes[1], bytes[2], bytes[3], bytes[4] % 64>>)
    IN  IF Len(bytes) < 4 * FIELD_BYTES \/ bytes[4] >= 192
           \/ \E j \in 1..4 : Q[j] >= MODULUS
        THEN Err("ark")
        ELSE IF inf THEN Ok(G2_ZERO)
        ELSE Ok(Q)

G2Affine_serialize_uncompressed(Q) == reverse_halves(Q)

clear_cofactor(Q) == G2Mul(Q, G2_COFACTOR)

(***************************************************************************)
(* hash.rs                                                                 *)
(***************************************************************************)
(* One run of the closure: the digest, the byte strings it hands to the     *)
(* decompression oracle, and what it returns.                              *)
Attempt(digest, asked, out) == [digest |-> digest, asked |-> asked, out |-> out]

hash_attempt(message, n) ==
    Let(hashv(<<DST, message, <<n>>>>), LAMBDA hash :
    LET hash_ubig == from_be_bytes(hash)
    IN  IF hash_ubig >= NORMALIZE_MODULUS THEN Attempt(<<hash_ubig>>, <<>>, Err("None"))
        ELSE LET modulus_ubig == hash_ubig % MODULUS
             IN  Let(alt_bn128_g1_decompress(to_be_bytes(modulus_ubig)), LAMBDA d :
                 Attempt(<<hash_ubig>>, <<to_be_bytes(modulus_ubig)>>,
                         IF d.ok THEN Ok(d.val) ELSE Err("None"))))

hash_candidate(message, n) == hash_attempt(message, n).out

(* The first Some of the closure over the nonces lo..hi, searched in       *)
(* increasing order by halves to keep the evaluation shallow.              *)
RECURSIVE find_map_in(_, _, _)
find_map_in(message, lo, hi) ==
    IF lo = hi THEN hash_candidate(message, lo)
    ELSE Let(find_map_in(message, lo, (lo + hi) \div 2), LAMBDA c :
         IF c.ok THEN c ELSE find_map_in(message, (lo + hi) \div 2 + 1, hi))

find_map(message, n) ==
    IF n >= 255 THEN Err("HashToCurveError")
    ELSE Let(find_map_in(message, n, 254), LAMBDA c :
         IF c.ok THEN c ELSE Err("HashToCurveError"))

hash_to_curve_resuming(message) == find_map(message, gap)

hash_to_curve(message) == find_map(message, 0)

(***************************************************************************)
(* min_sig/hash.rs: the same sweep over a digest without the domain tag    *)
(***************************************************************************)
min_sig_try_hash_attempt(message, n) ==
    Let(hashv(<<message, <<n>>>>), LAMBDA hash :
    LET hash_ubig == from_be_bytes(hash)
    IN  IF hash_ubig >= NORMALIZE_MODULUS THEN Attempt(<<hash_ubig>>, <<>>, Err("None"))
        ELSE LET modulus_ubig == hash_ubig % MODULUS
             IN  Let(alt_bn128_g1_decompress(to_be_bytes(modulus_ubig)), LAMBDA d :
                 Attempt(<<hash_ubig>>, <<to_be_bytes(modulus_ubig)>>,
                         IF d.ok THEN Ok(d.val) ELSE Err("None"))))

RECURSIVE min_sig_find_map_in(_, _, _)
min_sig_find_map_in(message, lo, hi) ==
    IF lo = hi THEN min_sig_try_hash_attempt(message, lo).out
    ELSE Let(min_sig_find_map_in(message, lo, (lo + hi) \div 2), LAMBDA c :
         IF c.ok THEN c ELSE min_sig_find_map_in(message, (lo + hi) \div 2 + 1, hi))

min_sig_find_map(message, n) ==
    IF n >= 255 THEN Err("HashToCurveError")
    ELSE Let(min_sig_find_map_in(message, n, 254), LAMBDA c :
         IF c.ok THEN c ELSE Err("HashToCurveError"))

min_sig_try_hash_to_curve(message) == min_sig_find_map(message, 0)

(***************************************************************************)
(* g2.rs: public keys in G2                                                *)
(***************************************************************************)
G2CompressedPoint_try_from_PrivKey(value) ==
    LET pk == Reverse(value)
        secret_key == Fr_deserialize_compressed(pk)
    IN  IF ~secret_key.ok THEN Err("SecretKeyError")
        ELSE Ok(Reverse(G2Affine_serialize_compressed(secret_key.val)))

G2Point_try_from_PrivKey(value) ==
    LET c == G2CompressedPoint_try_from_PrivKey(value)
    IN  IF ~c.ok THEN c
        ELSE LET d == alt_bn128_g2_decompress(c.val)
             IN  IF d.ok THEN Ok(d.val) ELSE Err("G2PointDecompressionError")

G2Point_try_from_G2CompressedPoint(value) ==
    LET d == alt_bn128_g2_decompress(value)
    IN  IF d.ok THEN Ok(d.val) ELSE Err("G2PointDecompressionError")

(***************************************************************************)
(* Outcome of a call: the result, the oracle calls made, the byte strings  *)
(* handed to hash_to_curve and the buffer handed to the pairing oracle.    *)
(***************************************************************************)
Calls(h, a, m, p, l) == [h2c |-> h, add |-> a, mul |-> m, pairing |-> p, lookup |-> l]
NoCalls == Calls(0, 0, 0, 0, 0)
Ret(res, calls, hashed, input) ==
    [res |-> res, calls |-> calls, hashed |-> hashed, input |-> input]

copy_from_slice(buf, off, src) ==
    [j \in 1..Len(buf) |->
        IF j > off /\ j <= off + Len(src) THEN src[j - off] ELSE buf[j]]

Zeroed(n) == [j \in 1..n |-> 0]

is_gt_one(r) == r = GT_ONE

pairing_outcome(input, calls, hashed) ==
    LET r == alt_bn128_pairing(input)
    IN  IF ~r.ok THEN Ret("AltBN128PairingError", calls, hashed, input)
        ELSE IF is_gt_one(r.val) THEN Ret("Ok", calls, hashed, input)
        ELSE Ret("BLSVerificationError", calls, hashed, input)

single_input(h, pk, signature) ==
    copy_from_slice(copy_from_slice(copy_from_slice(copy_from_slice(
        Zeroed(12), 0, h), 2, pk), 6, signature), 8, G2_MINUS_ONE)

G2Point_verify(self, signature, message) ==
    LET h == hash_to_curve(message)
    IN  IF ~h.ok THEN Ret(h.err, Calls(1, 0, 0, 0, 0), <<message>>, <<>>)
        ELSE pairing_outcome(single_input(h.val, self, signature),
                             Calls(1, 0, 0, 1, 0), <<message>>)

G2CompressedPoint_verify(self, signature, message) ==
    LET h == hash_to_curve(message)
    IN  IF ~h.ok THEN Ret(h.err, Calls(1, 0, 0, 0, 0), <<message>>, <<>>)
        ELSE LET pk == G2Point_try_from_G2CompressedPoint(self)
             IN  IF ~pk.ok THEN Ret(pk.err, Calls(1, 0, 0, 0, 0), <<message>>, <<>>)
                 ELSE pairing_outcome(single_input(h.val, pk.val, signature),
                                      Calls(1, 0, 0, 1, 0), <<message>>)

(***************************************************************************)
(* privkey.rs                                                              *)
(***************************************************************************)
PrivKey_sign(self, message) ==
    LET point == hash_to_curve(message)
    IN  IF ~point.ok THEN Ret(point.err, Calls(1, 0, 0, 0, 0), <<message>>, <<>>)
        ELSE LET out == alt_bn128_multiplication(point.val \o self)
             IN  IF ~out.ok
                 THEN Ret("BLSSigningError", Calls(1, 0, 1, 0, 0), <<message>>, <<>>)
                 ELSE Ret("Ok", Calls(1, 0, 1, 0, 0), <<message>>, out.val)

(***************************************************************************)
(* utils.rs                                                                *)
(***************************************************************************)
bls_partial_sign_no_scalar(sk, message) ==
    LET h_g1 == hash_to_curve(message)
    IN  IF ~h_g1.ok THEN Ret(h_g1.err, Calls(1, 0, 0, 0, 0), <<message>>, <<>>)
        ELSE LET inbuf == copy_from_slice(Zeroed(3), 0, h_g1.val)
                 out == alt_bn128_multiplication(inbuf)
             IN  IF ~out.ok
                 THEN Ret("AltBN128MulError", Calls(1, 0, 1, 0, 0), <<message>>, <<>>)
                 ELSE Ret("Ok", Calls(1, 0, 1, 0, 0), <<message>>, SubSeq(out.val, 1, 2))

bls_partial_sign(sk, message) ==
    LET h_g1 == hash_to_curve(message)
    IN  IF ~h_g1.ok THEN Ret(h_g1.err, Calls(1, 0, 0, 0, 0), <<message>>, <<>>)
        ELSE LET inbuf == copy_from_slice(copy_from_slice(Zeroed(3), 0, h_g1.val), 2, sk)
                 out == alt_bn128_multiplication(inbuf)
             IN  IF ~out.ok
                 THEN Ret("AltBN128MulError", Calls(1, 0, 1, 0, 0), <<message>>, <<>>)
                 ELSE Ret("Ok", Calls(1, 0, 1, 0, 0), <<message>>, SubSeq(out.val, 1, 2))

bls_partial_sign_augmented_swapped(sk, message, signer_pk_g2) ==
    LET m == message \o signer_pk_g2
        h_g1 == hash_to_curve(m)
    IN  IF ~h_g1.ok THEN Ret(h_g1.err, Calls(1, 0, 0, 0, 0), <<m>>, <<>>)
        ELSE LET inbuf == copy_from_slice(copy_from_slice(Zeroed(3), 0, h_g1.val), 2, sk)
                 out == alt_bn128_multiplication(inbuf)
             IN  IF ~out.ok
                 THEN Ret("AltBN128MulError", Calls(1, 0, 1, 0, 0), <<m>>, <<>>)
                 ELSE Ret("Ok", Calls(1, 0, 1, 0, 0), <<m>>, SubSeq(out.val, 1, 2))

bls_partial_sign_augmented_unbound(sk, message, signer_pk_g2) ==
    LET m == message
        h_g1 == hash_to_curve(m)
    IN  IF ~h_g1.ok THEN Ret(h_g1.err, Calls(1, 0, 0, 0, 0), <<m>>, <<>>)
        ELSE LET inbuf == copy_from_slice(copy_from_slice(Zeroed(3), 0, h_g1.val), 2, sk)
                 out == alt_bn128_multiplication(inbuf)
             IN  IF ~out.ok
                 THEN Ret("AltBN128MulError", Calls(1, 0, 1, 0, 0), <<m>>, <<>>)
                 ELSE Ret("Ok", Calls(1, 0, 1, 0, 0), <<m>>, SubSeq(out.val, 1, 2))

bls_partial_sign_augmented(sk, message, signer_pk_g2) ==
    LET m == signer_pk_g2 \o message
        h_g1 == hash_to_curve(m)
    IN  IF ~h_g1.ok THEN Ret(h_g1.err, Calls(1, 0, 0, 0, 0), <<m>>, <<>>)
        ELSE LET inbuf == copy_from_slice(copy_from_slice(Zeroed(3), 0, h_g1.val), 2, sk)
                 out == alt_bn128_multiplication(inbuf)
             IN  IF ~out.ok
                 THEN Ret("AltBN128MulError", Calls(1, 0, 1, 0, 0), <<m>>, <<>>)
                 ELSE Ret("Ok", Calls(1, 0, 1, 0, 0), <<m>>, SubSeq(out.val, 1, 2))

RECURSIVE aggregate_loop(_, _, _)
aggregate_loop(acc, partials, i) ==
    IF i > Len(partials) THEN Ret("Ok", Calls(0, i - 2, 0, 0, 0), <<>>, acc)
    ELSE LET inbuf == copy_from_slice(copy_from_slice(Zeroed(4), 0, acc), 2, partials[i])
             out == alt_bn128_addition(inbuf)
         IN  IF ~out.ok
             THEN Ret("AltBN128AddError", Calls(0, i - 1, 0, 0, 0), <<>>, <<>>)
             ELSE aggregate_loop(SubSeq(out.val, 1, 2), partials, i + 1)

aggregate_partials_first_only(partials) ==
    IF partials = <<>> THEN Ret("SerializationError", NoCalls, <<>>, <<>>)
    ELSE Ret("Ok", NoCalls, <<>>, partials[1])

aggregate_partials_empty_ok(partials) ==
    IF partials = <<>> THEN Ret("Ok", NoCalls, <<>>, G1_ZERO)
    ELSE aggregate_loop(partials[1], partials, 2)

aggregate_partials(partials) ==
    IF partials = <<>> THEN Ret("SerializationError", NoCalls, <<>>, <<>>)
    ELSE aggregate_loop(partials[1], partials, 2)

check_no_duplicate_pubkeys_adjacent(pubkeys) ==
    ~ \E i \in 1..Len(pubkeys) : \E j \in (i + 2)..Len(pubkeys) :
          pubkeys[i] = pubkeys[j]

check_no_duplicate_pubkeys(pubkeys) ==
    ~ \E i \in 1..Len(pubkeys) : \E j \in (i + 1)..Len(pubkeys) :
          pubkeys[i] = pubkeys[j]

final_pair(input, k, s_sum) ==
    copy_from_slice(copy_from_slice(input, 6 * k, s_sum), 6 * k + 2, G2_MINUS_ONE)

RECURSIVE fast_pairs_packed(_, _, _, _)
fast_pairs_packed(input, h_g1, signer_pubkeys, i) ==
    IF i > Len(signer_pubkeys) THEN input
    ELSE LET off == 4 * (i - 1)
         IN  fast_pairs_packed(copy_from_slice(copy_from_slice(input, off, h_g1),
                                               off + 2, signer_pubkeys[i]),
                               h_g1, signer_pubkeys, i + 1)

RECURSIVE fast_pairs(_, _, _, _)
fast_pairs(input, h_g1, signer_pubkeys, i) ==
    IF i > Len(signer_pubkeys) THEN input
    ELSE LET off == 6 * (i - 1)
         IN  fast_pairs(copy_from_slice(copy_from_slice(input, off, h_g1),
                                        off + 2, signer_pubkeys[i]),
                        h_g1, signer_pubkeys, i + 1)

verify_fast_aggregate(message, signer_pubkeys, s_sum) ==
    LET k == Len(signer_pubkeys)
    IN  IF k = 0 THEN Ret("SerializationError", NoCalls, <<>>, <<>>)
        ELSE IF ~check_no_duplicate_pubkeys(signer_pubkeys)
        THEN Ret("SerializationError", NoCalls, <<>>, <<>>)
        ELSE LET h_g1 == hash_to_curve(message)
             IN  IF ~h_g1.ok
                 THEN Ret(h_g1.err, Calls(1, 0, 0, 0, 0), <<message>>, <<>>)
                 ELSE LET input == fast_pairs(Zeroed(6 * (k + 1)), h_g1.val,
                                              signer_pubkeys, 1)
                      IN  pairing_outcome(final_pair(input, k, s_sum),
                                          Calls(1, 0, 0, 1, 0), <<message>>)

RECURSIVE augmented_pairs(_, _, _, _, _)
augmented_pairs(input, message, signer_pubkeys, i, hashed) ==
    IF i > Len(signer_pubkeys) THEN Ret("Ok", Calls(i - 1, 0, 0, 0, 0), hashed, input)
    ELSE LET pk == signer_pubkeys[i]
             m == pk \o message
             h_g1 == hash_to_curve(m)
             off == 6 * (i - 1)
         IN  IF ~h_g1.ok
             THEN Ret(h_g1.err, Calls(i, 0, 0, 0, 0), Append(hashed, m), <<>>)
             ELSE augmented_pairs(
                      copy_from_slice(copy_from_slice(input, off, h_g1.val), off + 2, pk),
                      message, signer_pubkeys, i + 1, Append(hashed, m))

verify_augmented(message, signer_pubkeys, s_sum) ==
    LET k == Len(signer_pubkeys)
    IN  IF k = 0 THEN Ret("SerializationError", NoCalls, <<>>, <<>>)
        ELSE IF ~check_no_duplicate_pubkeys(signer_pubkeys)
        THEN Ret("SerializationError", NoCalls, <<>>, <<>>)
        ELSE LET lp == augmented_pairs(Zeroed(6 * (k + 1)), message,
                                       signer_pubkeys, 1, <<>>)
             IN  IF lp.res # "Ok" THEN lp
                 ELSE pairing_outcome(final_pair(lp.input, k, s_sum),
                                      Calls(k, 0, 0, 1, 0), lp.hashed)

(***************************************************************************)
(* threshold.rs                                                            *)
(***************************************************************************)
threshold_bls_partial_sign(sk_be_32, message) ==
    LET h_g1 == hash_to_curve(message)
    IN  IF ~h_g1.ok THEN Ret(h_g1.err, Calls(1, 0, 0, 0, 0), <<message>>, <<>>)
        ELSE LET inbuf == copy_from_slice(copy_from_slice(Zeroed(3), 0, h_g1.val),
                                          2, sk_be_32)
                 out == alt_bn128_multiplication(inbuf)
             IN  IF ~out.ok
                 THEN Ret("AltBN128MulError", Calls(1, 0, 1, 0, 0), <<message>>, <<>>)
                 ELSE Ret("Ok", Calls(1, 0, 1, 0, 0), <<message>>, SubSeq(out.val, 1, 2))

RECURSIVE threshold_aggregate_loop(_, _, _)
threshold_aggregate_loop(acc, partials, i) ==
    IF i > Len(partials) THEN Ret("Ok", Calls(0, i - 2, 0, 0, 0), <<>>, acc)
    ELSE LET inbuf == copy_from_slice(copy_from_slice(Zeroed(4), 0, acc), 2, partials[i])
             out == alt_bn128_addition(inbuf)
         IN  IF ~out.ok
             THEN Ret("AltBN128AddError", Calls(0, i - 1, 0, 0, 0), <<>>, <<>>)
             ELSE threshold_aggregate_loop(SubSeq(out.val, 1, 2), partials, i + 1)

threshold_aggregate_partials(partials) ==
    IF partials = <<>> THEN Ret("SerializationError", NoCalls, <<>>, <<>>)
    ELSE threshold_aggregate_loop(partials[1], partials, 2)

g2_by_index(pk_provider, idx) ==
    IF idx < Len(pk_provider.pks) THEN Ok(pk_provider.pks[idx + 1])
    ELSE Err(pk_provider.err)

RECURSIVE a1_pairs_skip_last(_, _, _, _, _)
a1_pairs_skip_last(input, h_g1, signer_indices, pk_provider, i) ==
    IF i >= Len(signer_indices) THEN Ret("Ok", Calls(1, 0, 0, 0, i - 1), <<>>, input)
    ELSE LET pk == g2_by_index(pk_provider, signer_indices[i])
             off == 6 * (i - 1)
         IN  IF ~pk.ok THEN Ret(pk.err, Calls(1, 0, 0, 0, i), <<>>, <<>>)
             ELSE a1_pairs_skip_last(copy_from_slice(copy_from_slice(input, off, h_g1),
                                                     off + 2, pk.val),
                                     h_g1, signer_indices, pk_provider, i + 1)

RECURSIVE a1_pairs_map_err(_, _, _, _, _)
a1_pairs_map_err(input, h_g1, signer_indices, pk_provider, i) ==
    IF i > Len(signer_indices) THEN Ret("Ok", Calls(1, 0, 0, 0, i - 1), <<>>, input)
    ELSE LET pk == g2_by_index(pk_provider, signer_indices[i])
             off == 6 * (i - 1)
         IN  IF ~pk.ok
             THEN Ret("SerializationError", Calls(1, 0, 0, 0, i), <<>>, <<>>)
             ELSE a1_pairs_map_err(copy_from_slice(copy_from_slice(input, off, h_g1),
                                                   off + 2, pk.val),
                                   h_g1, signer_indices, pk_provider, i + 1)

RECURSIVE a1_pairs(_, _, _, _, _)
a1_pairs(input, h_g1, signer_indices, pk_provider, i) ==
    IF i > Len(signer_indices) THEN Ret("Ok", Calls(1, 0, 0, 0, i - 1), <<>>, input)
    ELSE LET pk == g2_by_index(pk_provider, signer_indices[i])
             off == 6 * (i - 1)
         IN  IF ~pk.ok THEN Ret(pk.err, Calls(1, 0, 0, 0, i), <<>>, <<>>)
             ELSE a1_pairs(copy_from_slice(copy_from_slice(input, off, h_g1),
                                           off + 2, pk.val),
                           h_g1, signer_indices, pk_provider, i + 1)

verify_a1_with_indices(message, signer_indices, s_sum, pk_provider) ==
    LET k == Len(signer_indices)
    IN  IF k = 0 THEN Ret("SerializationError", NoCalls, <<>>, <<>>)
        ELSE LET h_g1 == hash_to_curve(message)
             IN  IF ~h_g1.ok
                 THEN Ret(h_g1.err, Calls(1, 0, 0, 0, 0), <<message>>, <<>>)
                 ELSE LET lp == a1_pairs(Zeroed(6 * (k + 1)), h_g1.val,
                                         signer_indices, pk_provider, 1)
                      IN  IF lp.res # "Ok"
                          THEN Ret(lp.res, lp.calls, <<message>>, <<>>)
                          ELSE pairing_outcome(final_pair(lp.input, k, s_sum),
                                               Calls(1, 0, 0, 1, k), <<message>>)

(***************************************************************************)
(* g1.rs: G1 points.  An Option is a Result whose error is "None"; a       *)
(* failed expect is the error "panic".                                     *)
(***************************************************************************)
G1_ONE == G1_TABLE[1]

expect(r) == Let(r, LAMBDA v : IF v.ok THEN v ELSE Err("panic"))

G1Point_checked_add(self, rhs) ==
    LET combined_input == copy_from_slice(copy_from_slice(Zeroed(4), 0, self), 2, rhs)
        result == alt_bn128_addition(combined_input)
    IN  IF ~result.ok \/ Len(result.val) # 2 THEN Err("None")
        ELSE Ok(result.val)

G1Point_add(self, rhs) == expect(G1Point_checked_add(self, rhs))

G1CompressedPoint_try_from_PrivKey(value) ==
    LET input == G1_ONE \o value
        g1_sol_uncompressed == alt_bn128_multiplication(input)
    IN  IF ~g1_sol_uncompressed.ok THEN Err("AltBN128MulError")
        ELSE LET compressed == alt_bn128_g1_compress(g1_sol_uncompressed.val)
             IN  IF ~compressed.ok THEN Err("SecretKeyError")
                 ELSE Ok(compressed.val)

G1Point_try_from_PrivKey(value) ==
    LET input == G1_ONE \o value
        g1_sol_uncompressed == alt_bn128_multiplication(input)
    IN  IF ~g1_sol_uncompressed.ok THEN Err("SecretKeyError")
        ELSE Ok(g1_sol_uncompressed.val)

G1CompressedPoint_try_from_G1Point(value) ==
    LET c == alt_bn128_g1_compress(value)
    IN  IF c.ok THEN Ok(c.val) ELSE Err("G1PointCompressionError")

G1Point_try_from_G1CompressedPoint(value) ==
    LET d == alt_bn128_g1_decompress(value)
    IN  IF d.ok THEN Ok(d.val) ELSE Err("G1PointDecompressionError")

(***************************************************************************)
(* g2.rs: G2 points are added through their compressed form                *)
(***************************************************************************)
G2CompressedPoint_try_from_G2Point(value) ==
    LET c == alt_bn128_g2_compress(value)
    IN  IF c.ok THEN Ok(c.val) ELSE Err("G2PointCompressionError")

G2Point_checked_add(self, rhs) ==
    Let(G2CompressedPoint_try_from_G2Point(self), LAMBDA s0 :
    Let(G2CompressedPoint_try_from_G2Point(rhs), LAMBDA s1 :
    IF ~s0.ok \/ ~s1.ok THEN Err("None")
    ELSE Let(G2Affine_deserialize_compressed(Reverse(s0.val)), LAMBDA a0 :
         Let(G2Affine_deserialize_compressed(Reverse(s1.val)), LAMBDA a1 :
         IF ~a0.ok \/ ~a1.ok THEN Err("None")
         ELSE Let(G2Add(a0.val, a1.val), LAMBDA g2_agg :
              Let(G2Point_try_from_G2CompressedPoint(
                      Reverse(G2Affine_serialize_compressed(G2Log(g2_agg)))),
                  LAMBDA d : IF d.ok THEN d ELSE Err("None")))))))

G2Point_add(self, rhs) == expect(G2Point_checked_add(self, rhs))

(***************************************************************************)
(* min_pk: public keys in G1, signatures in G2                             *)
(***************************************************************************)
G1_MINUS_ONE == G1_TABLE[GROUP_ORDER - 1]
C0 == <<99, 48>>
C1 == <<99, 49>>

pad32(x) == Zeroed(FIELD_BYTES - Len(x)) \o x

try_hash_attempt_aborting(message, n) ==
    Let(hashv(<<message, <<n>>, C0>>), LAMBDA h0 :
    Let(hashv(<<message, <<n>>, C1>>), LAMBDA h1 :
    LET u0 == from_be_bytes(h0)
        u1 == from_be_bytes(h1)
    IN  IF u0 >= NORMALIZE_MODULUS \/ u1 >= NORMALIZE_MODULUS
        THEN Attempt(<<u0, u1>>, <<>>, Err("continue"))
        ELSE LET x0 == to_be_bytes(u0 % MODULUS)
                 x1 == to_be_bytes(u1 % MODULUS)
                 comp == pad32(x0) \o pad32(x1)
             IN  Attempt(<<u0, u1>>, <<comp>>,
                 Let(alt_bn128_g2_decompress(comp), LAMBDA uncompressed :
                 IF ~uncompressed.ok THEN Err("G2PointDecompressionError")
                 ELSE Ok(clear_cofactor(uncompressed.val))))))

try_hash_attempt(message, n) ==
    Let(hashv(<<message, <<n>>, C0>>), LAMBDA h0 :
    Let(hashv(<<message, <<n>>, C1>>), LAMBDA h1 :
    LET u0 == from_be_bytes(h0)
        u1 == from_be_bytes(h1)
    IN  IF u0 >= NORMALIZE_MODULUS \/ u1 >= NORMALIZE_MODULUS
        THEN Attempt(<<u0, u1>>, <<>>, Err("continue"))
        ELSE LET x0 == to_be_bytes(u0 % MODULUS)
                 x1 == to_be_bytes(u1 % MODULUS)
                 comp == pad32(x0) \o pad32(x1)
             IN  Attempt(<<u0, u1>>, <<comp>>,
                 Let(alt_bn128_g2_decompress(comp), LAMBDA uncompressed :
                 IF ~uncompressed.ok THEN Err("continue")
                 ELSE Let(G2Affine_deserialize_with_mode(
                              reverse_halves(uncompressed.val) \o <<0>>),
                          LAMBDA h2c_unchecked :
                      IF ~h2c_unchecked.ok THEN Err("G2PointDecompressionError")
                      ELSE Let(clear_cofactor(h2c_unchecked.val), LAMBDA h2c_cleared :
                           Ok(reverse_halves(G2Affine_serialize_uncompressed(h2c_cleared)))))))))

try_hash_candidate(message, n) == try_hash_attempt(message, n).out

(* The first iteration over the nonces lo..hi that returns instead of      *)
(* continuing, searched in increasing order by halves.                     *)
RECURSIVE try_hash_sweep_in(_, _, _)
try_hash_sweep_in(message, lo, hi) ==
    IF lo = hi THEN try_hash_candidate(message, lo)
    ELSE Let(try_hash_sweep_in(message, lo, (lo + hi) \div 2), LAMBDA c :
         IF c.ok \/ c.err # "continue" THEN c
         ELSE try_hash_sweep_in(message, (lo + hi) \div 2 + 1, hi))

try_hash_sweep(message, n) ==
    IF n > 254 THEN Err("HashToCurveError")
    ELSE Let(try_hash_sweep_in(message, n, 254), LAMBDA c :
         IF c.ok \/ c.err # "continue" THEN c ELSE Err("HashToCurveError"))

try_hash_to_curve(message) == try_hash_sweep(message, 0)

min_pk_PrivKey_sign(self, message) ==
    Let(try_hash_to_curve(message), LAMBDA hm_host :
    IF ~hm_host.ok THEN hm_host
    ELSE Let(G2Affine_deserialize_with_mode(reverse_halves(hm_host.val) \o <<0>>),
             LAMBDA hm_affine :
         Let(Fr_deserialize_compressed(Reverse(self)), LAMBDA sk :
         IF ~hm_affine.ok THEN Err("G2PointDecompressionError")
         ELSE IF ~sk.ok THEN Err("SecretKeyError")
         ELSE Let(G2Mul(hm_affine.val, sk.val), LAMBDA sig_affine :
              Ok(reverse_halves(G2Affine_serialize_uncompressed(sig_affine)))))))

min_pk_G1Point_checked_add(self, rhs) ==
    LET combined_input == copy_from_slice(copy_from_slice(Zeroed(4), 0, self), 2, rhs)
        result == alt_bn128_addition(combined_input)
    IN  IF ~result.ok \/ Len(result.val) # 2 THEN Err("None")
        ELSE Ok(result.val)

min_pk_G1Point_add(self, rhs) == expect(min_pk_G1Point_checked_add(self, rhs))

min_pk_G1CompressedPoint_try_from_PrivKey(value) ==
    LET input == G1_ONE \o value
        g1_sol_uncompressed == alt_bn128_multiplication(input)
    IN  IF ~g1_sol_uncompressed.ok THEN Err("AltBN128MulError")
        ELSE LET compressed == alt_bn128_g1_compress(g1_sol_uncompressed.val)
             IN  IF ~compressed.ok THEN Err("SecretKeyError")
                 ELSE Ok(compressed.val)

min_pk_G1Point_try_from_PrivKey(value) ==
    LET input == G1_ONE \o value
        g1_sol_uncompressed == alt_bn128_multiplication(input)
    IN  IF ~g1_sol_uncompressed.ok THEN Err("SecretKeyError")
        ELSE Ok(g1_sol_uncompressed.val)

min_pk_G1CompressedPoint_try_from_G1Point(value) ==
    LET c == alt_bn128_g1_compress(value)
    IN  IF c.ok THEN Ok(c.val) ELSE Err("G1PointCompressionError")

min_pk_G1Point_try_from_G1CompressedPoint(value) ==
    LET d == alt_bn128_g1_decompress(value)
    IN  IF d.ok THEN Ok(d.val) ELSE Err("G1PointDecompressionError")

min_pk_G1CompressedPoint_try_from_ref_PrivKey(value) ==
    LET pk == Reverse(value)
        secret_key == Fr_deserialize_compressed(pk)
    IN  IF ~secret_key.ok THEN Err("SecretKeyError")
        ELSE Ok(Reverse(G1Affine_serialize_compressed(secret_key.val)))

min_pk_G1Point_try_from_ref_PrivKey(value) ==
    LET c == min_pk_G1CompressedPoint_try_from_ref_PrivKey(value)
    IN  IF ~c.ok THEN c
        ELSE LET d == alt_bn128_g1_decompress(c.val)
             IN  IF d.ok THEN Ok(d.val) ELSE Err("G1PointDecompressionError")

min_pk_G2CompressedPoint_try_from_G2Point(value) ==
    LET c == alt_bn128_g2_compress(value)
    IN  IF c.ok THEN Ok(c.val) ELSE Err("G2PointCompressionError")

min_pk_G2Point_try_from_G2CompressedPoint(value) ==
    LET d == alt_bn128_g2_decompress(value)
    IN  IF d.ok THEN Ok(d.val) ELSE Err("G2PointDecompressionError")

min_pk_G2Point_checked_add(self, rhs) ==
    Let(min_pk_G2CompressedPoint_try_from_G2Point(self), LAMBDA s0 :
    Let(min_pk_G2CompressedPoint_try_from_G2Point(rhs), LAMBDA s1 :
    IF ~s0.ok \/ ~s1.ok THEN Err("None")
    ELSE Let(G2Affine_deserialize_compressed(Reverse(s0.val)), LAMBDA a0 :
         Let(G2Affine_deserialize_compressed(Reverse(s1.val)), LAMBDA a1 :
         IF ~a0.ok \/ ~a1.ok THEN Err("None")
         ELSE Let(G2Add(a0.val, a1.val), LAMBDA g2_agg :
              Let(min_pk_G2Point_try_from_G2CompressedPoint(
                      Reverse(G2Affine_serialize_compressed(G2Log(g2_agg)))),
                  LAMBDA d : IF d.ok THEN d ELSE Err("None")))))))

min_pk_G2Point_add(self, rhs) == expect(min_pk_G2Point_checked_add(self, rhs))

(* A signature is passed as a G2Point or as a G2CompressedPoint. *)
BLSSignature_to_bytes(signature) ==
    IF signature.compressed
    THEN min_pk_G2Point_try_from_G2CompressedPoint(signature.bytes)
    ELSE Ok(signature.bytes)

verify_signature_input(pk, hm, sig) ==
    copy_from_slice(copy_from_slice(copy_from_slice(copy_from_slice(
        Zeroed(12), 0, pk), 2, hm), 6, G1_MINUS_ONE), 8, sig)

verify_signature_outcome(input, hashed) ==
    Let(alt_bn128_pairing(input), LAMBDA r :
    IF r.ok /\ is_gt_one(r.val) THEN Ret("Ok", Calls(1, 0, 0, 1, 0), hashed, input)
    ELSE IF r.ok THEN Ret("BLSVerificationError", Calls(1, 0, 0, 1, 0), hashed, input)
    ELSE Ret("BLSVerificationError", Calls(1, 0, 0, 1, 0), hashed, input))

G1Point_verify_signature(self, signature, message) ==
    Let(try_hash_to_curve(message), LAMBDA hm :
    Let(BLSSignature_to_bytes(signature), LAMBDA sig :
    IF ~hm.ok THEN Ret(hm.err, Calls(1, 0, 0, 0, 0), <<message>>, <<>>)
    ELSE IF ~sig.ok THEN Ret(sig.err, Calls(1, 0, 0, 0, 0), <<message>>, <<>>)
    ELSE Let(verify_signature_input(self, hm.val, sig.val), LAMBDA input :
         verify_signature_outcome(input, <<message>>))))

G1CompressedPoint_verify_signature(self, signature, message) ==
    Let(min_pk_G1Point_try_from_G1CompressedPoint(self), LAMBDA pk :
    Let(try_hash_to_curve(message), LAMBDA hm :
    Let(BLSSignature_to_bytes(signature), LAMBDA sig :
    IF ~pk.ok THEN Ret(pk.err, NoCalls, <<>>, <<>>)
    ELSE IF ~hm.ok THEN Ret(hm.err, Calls(1, 0, 0, 0, 0), <<message>>, <<>>)
    ELSE IF ~sig.ok THEN Ret(sig.err, Calls(1, 0, 0, 0, 0), <<message>>, <<>>)
    ELSE Let(verify_signature_input(pk.val, hm.val, sig.val), LAMBDA input :
         verify_signature_outcome(input, <<message>>)))))

(***************************************************************************)
(* The state: a client that draws keys with PrivKey::from_random, lets the *)
(* key holders sign one message, aggregates the partial signatures and     *)
(* calls the verifiers.                                                    *)
(***************************************************************************)
VARIABLES keys, fr_pc, bytes, message, partials, s_sum, last, call, memo, sweep

vars == <<keys, fr_pc, bytes, message, partials, s_sum, last, fault, call, memo, gap,
          sweep>>

client == <<keys, fr_pc, bytes, message, partials, s_sum, last>>
lib == <<fault, call, memo, gap, sweep>>

Messages == {<<97>>, <<98>>}
RandomBytes == {<<0>>, <<1>>, <<2>>, <<30>>, <<31>>, <<43>>}
ProviderErrors == {"SerializationError", "SecretKeyError"}

NoLibCall == [op |-> "none", args |-> <<>>, out |-> <<>>]

(* A hash-to-curve call in progress: the function, its message, the nonce  *)
(* of the iteration, the digests and the oracle input of the last          *)
(* iteration, the number of oracle calls so far, and the value returned.   *)
NoSweep == [pc |-> "idle", op |-> "none", message |-> <<>>, n |-> 0, iters |-> 0,
            digest |-> <<>>, asked |-> <<>>, calls |-> 0, out |-> Err("none")]

NoCall == [op |-> "none", message |-> <<>>, pks |-> <<>>, indices |-> <<>>,
           provider_err |-> "none", sig |-> <<>>, out |-> Ret("none", NoCalls, <<>>, <<>>)]

RECURSIVE SortedKeys(_)
SortedKeys(S) ==
    IF S = {} THEN <<>>
    ELSE LET m == CHOOSE k \in S : \A o \in S : from_be_bytes(k) <= from_be_bytes(o)
         IN  <<m>> \o SortedKeys(S \ {m})

KeySeq == SortedKeys(keys)

RECURSIVE RegistryOf(_)
RegistryOf(ks) ==
    IF ks = <<>> THEN <<>>
    ELSE LET pk == G2Point_try_from_PrivKey(Head(ks))
         IN  (IF pk.ok THEN <<pk.val>> ELSE <<>>) \o RegistryOf(Tail(ks))

Registry == RegistryOf(KeySeq)

RECURSIVE CompressedRegistryOf(_)
CompressedRegistryOf(ks) ==
    IF ks = <<>> THEN <<>>
    ELSE LET pk == G2CompressedPoint_try_from_PrivKey(Head(ks))
         IN  (IF pk.ok THEN <<pk.val>> ELSE <<>>) \o CompressedRegistryOf(Tail(ks))

Signatures == [i \in 1..Len(partials) |-> partials[i].out.input]

SSum == IF s_sum.res = "Ok" THEN s_sum.input ELSE G1_ZERO

Idle == fr_pc = "idle"

Init ==
    /\ keys = {}
    /\ fr_pc = "idle"
    /\ bytes = <<0>>
    /\ message \in Messages
    /\ partials = <<>>
    /\ s_sum = Ret("none", NoCalls, <<>>, <<>>)
    /\ last = NoCall
    /\ fault = "none"
    /\ call = NoLibCall
    /\ memo = NoLibCall
    /\ gap = 0
    /\ sweep = NoSweep

from_random_call ==
    /\ Idle
    /\ Cardinality(keys) < MaxKeys
    /\ partials = <<>>
    /\ s_sum.res = "none"
    /\ fr_pc' = "loop"
    /\ bytes' = <<0>>
    /\ UNCHANGED <<keys, message, partials, s_sum, last>>
    /\ UNCHANGED lib

from_random_loop_inclusive ==
    /\ fr_pc = "loop"
    /\ \E sample \in RandomBytes :
          LET num == from_be_bytes(sample)
          IN  IF num <= MODULUS
              THEN /\ keys' = keys \cup {sample}
                   /\ fr_pc' = "idle"
                   /\ bytes' = sample
              ELSE /\ bytes' = sample
                   /\ UNCHANGED <<keys, fr_pc>>
    /\ UNCHANGED <<message, partials, s_sum, last>>
    /\ UNCHANGED lib

from_random_loop_below_order ==
    /\ fr_pc = "loop"
    /\ \E sample \in RandomBytes :
          LET num == from_be_bytes(sample)
          IN  IF num < GROUP_ORDER
              THEN /\ keys' = keys \cup {sample}
                   /\ fr_pc' = "idle"
                   /\ bytes' = sample
              ELSE /\ bytes' = sample
                   /\ UNCHANGED <<keys, fr_pc>>
    /\ UNCHANGED <<message, partials, s_sum, last>>
    /\ UNCHANGED lib

from_random_loop ==
    /\ fr_pc = "loop"
    /\ \E sample \in RandomBytes :
          LET num == from_be_bytes(sample)
          IN  IF num < MODULUS
              THEN /\ keys' = keys \cup {sample}
                   /\ fr_pc' = "idle"
                   /\ bytes' = sample
              ELSE /\ bytes' = sample
                   /\ UNCHANGED <<keys, fr_pc>>
    /\ UNCHANGED <<message, partials, s_sum, last>>
    /\ UNCHANGED lib

NextSigner == IF partials = <<>> THEN 1 ELSE partials[Len(partials)].idx + 1

SignPlain ==
    /\ Idle
    /\ s_sum.res = "none"
    /\ \E i \in NextSigner..Len(KeySeq) :
          \E out \in {PrivKey_sign(KeySeq[i], message),
                      bls_partial_sign(KeySeq[i], message),
                      threshold_bls_partial_sign(KeySeq[i], message)} :
              partials' = Append(partials,
                  [idx |-> i, sk |-> KeySeq[i], aug |-> FALSE, out |-> out])
    /\ UNCHANGED <<keys, fr_pc, bytes, message, s_sum, last>>
    /\ UNCHANGED lib

SignAugmented ==
    /\ Idle
    /\ s_sum.res = "none"
    /\ \E i \in NextSigner..Len(KeySeq) :
          LET pk == G2Point_try_from_PrivKey(KeySeq[i])
          IN  /\ pk.ok
              /\ partials' = Append(partials,
                    [idx |-> i, sk |-> KeySeq[i], aug |-> TRUE,
                     out |-> bls_partial_sign_augmented(KeySeq[i], message, pk.val)])
    /\ UNCHANGED <<keys, fr_pc, bytes, message, s_sum, last>>
    /\ UNCHANGED lib

Aggregate ==
    /\ Idle
    /\ s_sum.res = "none"
    /\ \A i \in 1..Len(partials) : partials[i].out.res = "Ok"
    /\ s_sum' \in {aggregate_partials(Signatures),
                  threshold_aggregate_partials(Signatures)}
    /\ UNCHANGED <<keys, fr_pc, bytes, message, partials, last>>
    /\ UNCHANGED lib

PubkeyLists(reg) ==
    UNION {[1..n -> {reg[j] : j \in 1..Len(reg)}] : n \in 0..MaxSigners}

IndexLists(reg) ==
    UNION {[1..n -> 0..Len(reg)] : n \in 0..MaxSigners}

Aggregated == s_sum.res # "none" /\ last.op = "none"

VerifySingle ==
    /\ Idle
    /\ Aggregated
    /\ \E m \in Messages, i \in 1..Len(partials), j \in 1..Len(Registry) :
          last' = [op |-> "G2Point::verify", message |-> m, pks |-> <<Registry[j]>>,
                   indices |-> <<>>, provider_err |-> "none", sig |-> Signatures[i],
                   out |-> G2Point_verify(Registry[j], Signatures[i], m)]
    /\ UNCHANGED <<keys, fr_pc, bytes, message, partials, s_sum>>
    /\ UNCHANGED lib

VerifySingleCompressed ==
    /\ Idle
    /\ Aggregated
    /\ LET creg == CompressedRegistryOf(KeySeq)
       IN  \E m \in Messages, i \in 1..Len(partials), j \in 1..Len(creg) :
              last' = [op |-> "G2CompressedPoint::verify", message |-> m,
                       pks |-> <<creg[j]>>, indices |-> <<>>, provider_err |-> "none",
                       sig |-> Signatures[i],
                       out |-> G2CompressedPoint_verify(creg[j], Signatures[i], m)]
    /\ UNCHANGED <<keys, fr_pc, bytes, message, partials, s_sum>>
    /\ UNCHANGED lib

VerifyFastAggregate ==
    /\ Idle
    /\ Aggregated
    /\ \E m \in Messages, pks \in PubkeyLists(Registry) :
          last' = [op |-> "verify_fast_aggregate", message |-> m, pks |-> pks,
                   indices |-> <<>>, provider_err |-> "none", sig |-> SSum,
                   out |-> verify_fast_aggregate(m, pks, SSum)]
    /\ UNCHANGED <<keys, fr_pc, bytes, message, partials, s_sum>>
    /\ UNCHANGED lib

VerifyAugmented ==
    /\ Idle
    /\ Aggregated
    /\ \E m \in Messages, pks \in PubkeyLists(Registry) :
          last' = [op |-> "verify_augmented", message |-> m, pks |-> pks,
                   indices |-> <<>>, provider_err |-> "none", sig |-> SSum,
                   out |-> verify_augmented(m, pks, SSum)]
    /\ UNCHANGED <<keys, fr_pc, bytes, message, partials, s_sum>>
    /\ UNCHANGED lib

VerifyThreshold ==
    /\ Idle
    /\ Aggregated
    /\ \E m \in Messages, indices \in IndexLists(Registry), e \in ProviderErrors :
          last' = [op |-> "verify_a1_with_indices", message |-> m, pks |-> <<>>,
                   indices |-> indices, provider_err |-> e, sig |-> SSum,
                   out |-> verify_a1_with_indices(m, indices, SSum,
                                                  [pks |-> Registry, err |-> e])]
    /\ UNCHANGED <<keys, fr_pc, bytes, message, partials, s_sum>>
    /\ UNCHANGED lib

Next ==
    \/ from_random_call
    \/ from_random_loop
    \/ SignPlain
    \/ SignAugmented
    \/ Aggregate
    \/ VerifySingle
    \/ VerifySingleCompressed
    \/ VerifyFastAggregate
    \/ VerifyAugmented
    \/ VerifyThreshold

Spec == Init /\ [][Next]_vars

(***************************************************************************)
(* Provenance of the arguments of the last verification                    *)
(***************************************************************************)
SignerPK(i) == G2Point_try_from_PrivKey(partials[i].sk)
SignerCompressedPK(i) == G2CompressedPoint_try_from_PrivKey(partials[i].sk)

AllPlain == \A i \in 1..Len(partials) : ~partials[i].aug
AllAugmented == \A i \in 1..Len(partials) : partials[i].aug
AllDerivable == \A i \in 1..Len(partials) : SignerPK(i).ok

HonestPubkeys ==
    /\ AllDerivable
    /\ last.pks = [i \in 1..Len(partials) |-> SignerPK(i).val]

HonestAggregate ==
    /\ partials # <<>>
    /\ s_sum.res = "Ok"
    /\ last.sig = s_sum.input

SingleOf(i) ==
    /\ ~partials[i].aug
    /\ last.sig = partials[i].out.input
    /\ \/ /\ last.op = "G2Point::verify"
          /\ SignerPK(i).ok
          /\ last.pks = <<SignerPK(i).val>>
       \/ /\ last.op = "G2CompressedPoint::verify"
          /\ SignerCompressedPK(i).ok
          /\ last.pks = <<SignerCompressedPK(i).val>>

HasDuplicate(pks) ==
    \E i \in 1..Len(pks) : \E j \in 1..Len(pks) : i # j /\ pks[i] = pks[j]

(***************************************************************************)
(* C1: every scalar returned by from_random has a G2 public key, and its   *)
(* signature over m verifies over m under that key, passed uncompressed or *)
(* compressed.                                                             *)
(***************************************************************************)
C1_RandomKeyVerifies ==
    \A i \in 1..Len(partials) :
        ~partials[i].aug
            => /\ SignerPK(i).ok
               /\ SignerCompressedPK(i).ok
               /\ (SingleOf(i) /\ last.message = message) => last.out.res = "Ok"

(***************************************************************************)
(* The part of C1 that holds: when the G2 key of sk can be derived (sk is  *)
(* below the group order), the signature verifies under it.                *)
(***************************************************************************)
C1_SingleSignatureCorrect ==
    \A i \in 1..Len(partials) :
        (SingleOf(i) /\ last.message = message) => last.out.res = "Ok"

C1_Witness ==
    \E i \in 1..Len(partials) :
        /\ SingleOf(i)
        /\ last.op = "G2CompressedPoint::verify"
        /\ last.message = message
        /\ last.sig # G1_ZERO
        /\ last.out.res = "Ok"

(***************************************************************************)
(* C2: a signature or aggregate made over m1 and verified over m2 # m1     *)
(* under the signers' keys is rejected with BLSVerificationError.          *)
(***************************************************************************)
C2_MessageSubstitutionRejected ==
    /\ \A i \in 1..Len(partials) :
          (SingleOf(i) /\ last.message # message)
              => last.out.res = "BLSVerificationError"
    /\ (/\ last.op = "verify_fast_aggregate"
        /\ AllPlain /\ HonestAggregate /\ HonestPubkeys
        /\ last.message # message)
           => last.out.res = "BLSVerificationError"
    /\ (/\ last.op = "verify_augmented"
        /\ AllAugmented /\ HonestAggregate /\ HonestPubkeys
        /\ last.message # message)
           => last.out.res = "BLSVerificationError"

(***************************************************************************)
(* C3: the aggregate of the partial signatures of distinct keys over m     *)
(* passes verify_fast_aggregate over m with the signers' public keys.      *)
(***************************************************************************)
C3_FastAggregateCorrect ==
    /\ (partials # <<>> /\ s_sum.res # "none") => s_sum.res = "Ok"
    /\ (/\ last.op = "verify_fast_aggregate"
        /\ AllPlain /\ HonestAggregate /\ HonestPubkeys
        /\ last.message = message)
           => last.out.res = "Ok"

C3_Witness ==
    /\ last.op = "verify_fast_aggregate"
    /\ AllPlain /\ HonestAggregate /\ HonestPubkeys
    /\ last.message = message
    /\ Len(partials) = 2
    /\ last.sig # G1_ZERO
    /\ last.out.res = "Ok"

(***************************************************************************)
(* C4: a signer list with two identical public keys is rejected with       *)
(* SerializationError by verify_fast_aggregate and verify_augmented before *)
(* hash-to-curve and before the pairing oracle.                            *)
(***************************************************************************)
C4_DuplicateRejectedFirst ==
    (/\ last.op \in {"verify_fast_aggregate", "verify_augmented"}
     /\ HasDuplicate(last.pks))
        => /\ last.out.res = "SerializationError"
           /\ last.out.calls.h2c = 0
           /\ last.out.calls.pairing = 0

C4_Witness ==
    /\ last.op = "verify_fast_aggregate"
    /\ last.message = message
    /\ \E sk \in keys :
          LET pk == G2Point_try_from_PrivKey(sk)
              s == bls_partial_sign(sk, message)
          IN  /\ pk.ok
              /\ s.res = "Ok"
              /\ s.input # G1_ZERO
              /\ last.pks = <<pk.val, pk.val>>
              /\ last.sig = aggregate_partials(<<s.input, s.input>>).input
    /\ last.out.res = "SerializationError"

(***************************************************************************)
(* C5: verify_a1_with_indices rejects a signer index list that resolves to *)
(* the same public key twice with SerializationError, without calling the  *)
(* pairing oracle.                                                         *)
(***************************************************************************)
ResolvesTwice ==
    \E i \in 1..Len(last.indices) : \E j \in 1..Len(last.indices) :
        /\ i # j
        /\ last.indices[i] < Len(Registry)
        /\ last.indices[j] < Len(Registry)
        /\ Registry[last.indices[i] + 1] = Registry[last.indices[j] + 1]

C5_ThresholdDuplicateRejected ==
    (last.op = "verify_a1_with_indices" /\ ResolvesTwice)
        => /\ last.out.res = "SerializationError"
           /\ last.out.calls.pairing = 0

(***************************************************************************)
(* C6: with a registry holding the keys of all scalars, the aggregate of   *)
(* the partial signatures of k >= 1 distinct registered signers passes     *)
(* verify_a1_with_indices with the list of their indices, in any order.    *)
(***************************************************************************)
IndexedSigners ==
    /\ Len(Registry) = Len(KeySeq)
    /\ Len(last.indices) = Len(partials)
    /\ {last.indices[i] : i \in 1..Len(last.indices)}
           = {partials[i].idx - 1 : i \in 1..Len(partials)}

C6_ThresholdCorrect ==
    (/\ last.op = "verify_a1_with_indices"
     /\ AllPlain /\ HonestAggregate /\ IndexedSigners
     /\ last.message = message)
        => last.out.res = "Ok"

C6_Witness ==
    /\ last.op = "verify_a1_with_indices"
    /\ AllPlain /\ HonestAggregate /\ IndexedSigners
    /\ last.message = message
    /\ Len(partials) = 2
    /\ last.indices = <<1, 0>>
    /\ last.sig # G1_ZERO
    /\ last.out.res = "Ok"

(***************************************************************************)
(* C7: the aggregate of augmented partial signatures over m passes         *)
(* verify_augmented over m with the signers' public keys, and for signer i *)
(* the verifier hashes the byte string the signer hashed: the 4 bytes of   *)
(* PK_i followed by m.                                                     *)
(***************************************************************************)
C7_AugmentedCorrect ==
    (/\ last.op = "verify_augmented"
     /\ AllAugmented /\ HonestAggregate /\ HonestPubkeys
     /\ last.message = message)
        => /\ last.out.res = "Ok"
           /\ Len(last.out.hashed) = Len(partials)
           /\ \A i \in 1..Len(partials) :
                 /\ last.out.hashed[i] = partials[i].out.hashed[1]
                 /\ SubSeq(last.out.hashed[i], 1, 4) = last.pks[i]
                 /\ SubSeq(last.out.hashed[i], 5, Len(last.out.hashed[i])) = message

C7_Witness ==
    /\ last.op = "verify_augmented"
    /\ AllAugmented /\ HonestAggregate /\ HonestPubkeys
    /\ last.message = message
    /\ Len(partials) = 2
    /\ last.sig # G1_ZERO
    /\ last.out.res = "Ok"

(***************************************************************************)
(* C8: an aggregate over m that sums at least one plain and at least one   *)
(* augmented partial signature of distinct non-zero keys is rejected by    *)
(* verify_fast_aggregate and by verify_augmented over m with the signers'  *)
(* public keys.                                                            *)
(***************************************************************************)
Mixed ==
    /\ \E i \in 1..Len(partials) : partials[i].aug
    /\ \E i \in 1..Len(partials) : ~partials[i].aug
    /\ \A i \in 1..Len(partials) : from_be_bytes(partials[i].sk) # 0

C8_MixedAggregateRejected ==
    (/\ last.op \in {"verify_fast_aggregate", "verify_augmented"}
     /\ Mixed /\ HonestAggregate /\ HonestPubkeys
     /\ last.message = message)
        => last.out.res # "Ok"

C8_Witness ==
    /\ last.op = "verify_augmented"
    /\ Mixed /\ HonestAggregate /\ HonestPubkeys
    /\ last.message = message
    /\ last.out.res = "BLSVerificationError"

(***************************************************************************)
(* C9: when the provider fails on an index of the signer list,             *)
(* verify_a1_with_indices returns SerializationError whatever the provider *)
(* returned, without calling the pairing oracle.                           *)
(***************************************************************************)
LookupFails ==
    /\ last.op = "verify_a1_with_indices"
    /\ \E i \in 1..Len(last.indices) : last.indices[i] >= Len(Registry)

C9_LookupFailureIsSerializationError ==
    LookupFails => /\ last.out.res = "SerializationError"
                   /\ last.out.calls.pairing = 0

(***************************************************************************)
(* C9 as amended: the provider's error is returned unchanged, and the      *)
(* pairing oracle is not called.                                           *)
(***************************************************************************)
C9_LookupFailureBubbles ==
    LookupFails => /\ last.out.res = last.provider_err
                   /\ last.out.calls.pairing = 0

C9_Witness ==
    /\ LookupFails
    /\ last.indices[1] < Len(Registry)
    /\ last.provider_err = "SecretKeyError"
    /\ last.out.res = "SecretKeyError"
    /\ last.out.calls.lookup = 2

(***************************************************************************)
(* C10: an empty public-key list, an empty index list and an empty list of *)
(* partial signatures are rejected with SerializationError before any call *)
(* of hash-to-curve, of the addition or of the pairing oracle.             *)
(***************************************************************************)
EmptySigners ==
    \/ last.op \in {"verify_fast_aggregate", "verify_augmented"} /\ last.pks = <<>>
    \/ last.op = "verify_a1_with_indices" /\ last.indices = <<>>

C10_EmptyRejectedFirst ==
    /\ EmptySigners => /\ last.out.res = "SerializationError"
                       /\ last.out.calls = NoCalls
    /\ (partials = <<>> /\ s_sum.res # "none")
           => /\ s_sum.res = "SerializationError"
              /\ s_sum.calls = NoCalls

C10_Witness ==
    /\ last.op = "verify_a1_with_indices"
    /\ last.indices = <<>>
    /\ Registry # <<>>
    /\ partials = <<>>
    /\ s_sum.res = "SerializationError"
    /\ last.out.res = "SerializationError"

(***************************************************************************)
(* Library calls.  A caller makes one call of the library with arguments   *)
(* built from scalars, messages and, for points, either a point the        *)
(* library derives or bytes of the caller's choice; the host oracle named  *)
(* by fault refuses its calls.                                             *)
(***************************************************************************)
MaxList == 3
Scalars == {<<0>>, <<1>>, <<2>>, <<30>>, <<31>>}
Faults == {"none", "add", "mul", "pairing", "g1_compress"}
InvalidG1 == <<1, 1>>
InvalidG2 == <<1, 1, 1, 1>>

(* In place of a scalar: the caller passes bytes of its own choice.        *)
Raw == <<>>

LibIdle == call.op = "none"

LibInit ==
    /\ keys = {}
    /\ fr_pc = "idle"
    /\ bytes = <<0>>
    /\ message = <<97>>
    /\ partials = <<>>
    /\ s_sum = Ret("none", NoCalls, <<>>, <<>>)
    /\ last = NoCall
    /\ fault \in Faults
    /\ call = NoLibCall
    /\ memo = NoLibCall
    /\ gap = 0
    /\ sweep = NoSweep

Made(op, args, out) ==
    /\ call' = [op |-> op, args |-> args, out |-> out]
    /\ UNCHANGED <<fault, memo, gap, sweep>>
    /\ UNCHANGED client

Returned(r) == Let(r, LAMBDA v : [res |-> IF v.ok THEN "Ok" ELSE v.err, bytes |-> v.val])

Failed(stage, err) == [stage |-> stage, res |-> err, input |-> <<>>]
Verified(ret) == Let(ret, LAMBDA v : [stage |-> "verify", res |-> v.res, input |-> v.input])

(* privkey.rs tests: sign with one key, verify under the key of another.   *)
sign_and_verify(sk_sig, m_sig, pk_from, compressed, msg) ==
    LET sig == PrivKey_sign(sk_sig, m_sig)
        pk == IF pk_from = Raw
              THEN Ok(IF compressed THEN <<1, 1>> ELSE InvalidG2)
              ELSE IF compressed THEN G2CompressedPoint_try_from_PrivKey(pk_from)
              ELSE G2Point_try_from_PrivKey(pk_from)
    IN  IF sig.res # "Ok" THEN Failed("sign", sig.res)
        ELSE IF ~pk.ok THEN Failed("pk", pk.err)
        ELSE Verified(IF compressed
                      THEN G2CompressedPoint_verify(pk.val, sig.input, msg)
                      ELSE G2Point_verify(pk.val, sig.input, msg))

CallVerify ==
    /\ LibIdle
    /\ \E sk_sig \in Scalars, pk_from \in Scalars \cup {Raw},
          m_sig \in Messages, msg \in Messages, compressed \in BOOLEAN :
          Made(IF compressed THEN "G2CompressedPoint::verify" ELSE "G2Point::verify",
               [sk |-> sk_sig, signed |-> m_sig, pk |-> pk_from, message |-> msg],
               sign_and_verify(sk_sig, m_sig, pk_from, compressed, msg))

(* min_pk tests: derive the G1 key by the host or the ark path, sign, pass *)
(* key and signature compressed or not.                                    *)
min_pk_public_key(pk_from, path, compressed) ==
    IF pk_from = Raw THEN Ok(IF compressed THEN <<1 + 128>> ELSE InvalidG1)
    ELSE IF path = "host" /\ compressed
    THEN min_pk_G1CompressedPoint_try_from_PrivKey(pk_from)
    ELSE IF path = "host" THEN min_pk_G1Point_try_from_PrivKey(pk_from)
    ELSE IF compressed THEN min_pk_G1CompressedPoint_try_from_ref_PrivKey(pk_from)
    ELSE min_pk_G1Point_try_from_ref_PrivKey(pk_from)

min_pk_sign_and_verify(sk_sig, m_sig, pk_from, path, pkc, sigc, msg) ==
    Let(min_pk_PrivKey_sign(sk_sig, m_sig), LAMBDA signature :
    IF ~signature.ok THEN Failed("sign", signature.err)
    ELSE Let(min_pk_G2CompressedPoint_try_from_G2Point(signature.val),
             LAMBDA signature_compressed :
         Let(min_pk_public_key(pk_from, path, pkc), LAMBDA pubkey :
         IF sigc /\ ~signature_compressed.ok
         THEN Failed("compress", signature_compressed.err)
         ELSE IF ~pubkey.ok THEN Failed("pk", pubkey.err)
         ELSE LET sig == IF sigc
                         THEN [compressed |-> TRUE, bytes |-> signature_compressed.val]
                         ELSE [compressed |-> FALSE, bytes |-> signature.val]
              IN  Verified(IF pkc
                           THEN G1CompressedPoint_verify_signature(pubkey.val, sig, msg)
                           ELSE G1Point_verify_signature(pubkey.val, sig, msg)))))

CallVerifySignature ==
    /\ LibIdle
    /\ \E sk_sig \in Scalars, pk_from \in Scalars \cup {Raw}, path \in {"host", "ark"},
          m_sig \in Messages, msg \in Messages, pkc \in BOOLEAN, sigc \in BOOLEAN :
          Made(IF pkc THEN "G1CompressedPoint::verify_signature"
               ELSE "G1Point::verify_signature",
               [sk |-> sk_sig, signed |-> m_sig, pk |-> pk_from, path |-> path,
                sigc |-> sigc, message |-> msg],
               min_pk_sign_and_verify(sk_sig, m_sig, pk_from, path, pkc, sigc, msg))

(* The operator + of the four point types; a failed addition panics.       *)
Add(kind, lhs, rhs) ==
    CASE kind = "G1Point" -> G1Point_add(lhs, rhs)
      [] kind = "G2Point" -> G2Point_add(lhs, rhs)
      [] kind = "min_pk::G1Point" -> min_pk_G1Point_add(lhs, rhs)
      [] kind = "min_pk::G2Point" -> min_pk_G2Point_add(lhs, rhs)

(* p_1 + p_2 + ... + p_n, evaluated from the left.                         *)
RECURSIVE Sum(_, _)
Sum(kind, points) ==
    IF Len(points) = 1 THEN Ok(points[1])
    ELSE Let(Sum(kind, SubSeq(points, 1, Len(points) - 1)), LAMBDA acc :
         IF ~acc.ok THEN acc ELSE Add(kind, acc.val, points[Len(points)]))

(* g2.rs tests: perps_aggregation, for any list of keys.                   *)
perps_aggregation(privkeys, msg) ==
    LET n == Len(privkeys)
    IN  Let([j \in 1..n |-> PrivKey_sign(privkeys[j], msg)], LAMBDA sig :
        Let([j \in 1..n |-> G2Point_try_from_PrivKey(privkeys[j])], LAMBDA pubkey :
        IF \E j \in 1..n : sig[j].res # "Ok" THEN Failed("sign", "panic")
        ELSE IF \E j \in 1..n : ~pubkey[j].ok THEN Failed("pk", "panic")
        ELSE Let(Sum("G1Point", [j \in 1..n |-> sig[j].input]), LAMBDA sig_agg :
             IF ~sig_agg.ok THEN Failed("sig_agg", "panic")
             ELSE Let(Sum("G2Point", [j \in 1..n |-> pubkey[j].val]), LAMBDA pubkey_agg :
                  IF ~pubkey_agg.ok THEN Failed("pubkey_agg", "panic")
                  ELSE Verified(G2Point_verify(pubkey_agg.val, sig_agg.val, msg))))))

(* min_pk/tests.rs: perps_aggregation, for any list of keys.               *)
min_pk_perps_aggregation(privkeys, msg) ==
    LET n == Len(privkeys)
    IN  Let([j \in 1..n |-> min_pk_PrivKey_sign(privkeys[j], msg)], LAMBDA sig :
        Let([j \in 1..n |-> min_pk_G1Point_try_from_ref_PrivKey(privkeys[j])],
            LAMBDA pubkey :
        IF \E j \in 1..n : ~sig[j].ok THEN Failed("sign", "panic")
        ELSE IF \E j \in 1..n : ~pubkey[j].ok THEN Failed("pk", "panic")
        ELSE Let(Sum("min_pk::G2Point", [j \in 1..n |-> sig[j].val]), LAMBDA sig_agg :
             IF ~sig_agg.ok THEN Failed("sig_agg", "panic")
             ELSE Let(Sum("min_pk::G1Point", [j \in 1..n |-> pubkey[j].val]),
                      LAMBDA pubkey_agg :
                  IF ~pubkey_agg.ok THEN Failed("pubkey_agg", "panic")
                  ELSE Verified(G1Point_verify_signature(
                           pubkey_agg.val,
                           [compressed |-> FALSE, bytes |-> sig_agg.val], msg))))))

Lists(S) == UNION {[1..n -> S] : n \in 1..MaxList}

CallPerpsAggregation ==
    /\ LibIdle
    /\ \E privkeys \in Lists(Scalars), msg \in Messages, min_pk \in BOOLEAN :
          Made(IF min_pk THEN "min_pk::perps_aggregation" ELSE "perps_aggregation",
               [sks |-> privkeys, message |-> msg],
               IF min_pk THEN min_pk_perps_aggregation(privkeys, msg)
               ELSE perps_aggregation(privkeys, msg))

(* g1.rs tests: g1_addition_is_commutative_and_associative, for the four   *)
(* point types; the G2 points of min_pk are signatures.                    *)
PointKinds == {"G1Point", "G2Point", "min_pk::G1Point", "min_pk::G2Point"}

PointOf(kind, sk) ==
    CASE kind = "G1Point" -> G1Point_try_from_PrivKey(sk)
      [] kind = "G2Point" -> G2Point_try_from_PrivKey(sk)
      [] kind = "min_pk::G1Point" -> min_pk_G1Point_try_from_PrivKey(sk)
      [] kind = "min_pk::G2Point" -> min_pk_PrivKey_sign(sk, <<97>>)

addition_is_commutative_and_associative(kind, sk_a, sk_b, sk_c) ==
    Let(PointOf(kind, sk_a), LAMBDA a :
    Let(PointOf(kind, sk_b), LAMBDA b :
    Let(PointOf(kind, sk_c), LAMBDA c :
    IF ~a.ok \/ ~b.ok \/ ~c.ok THEN Failed("point", "panic")
    ELSE Let(Add(kind, a.val, b.val), LAMBDA ab :
         Let(Add(kind, b.val, a.val), LAMBDA ba :
         IF ~ab.ok \/ ~ba.ok THEN Failed("commutative", "panic")
         ELSE IF ab.val # ba.val THEN Failed("commutative", "assert_eq")
         ELSE Let(Add(kind, ab.val, c.val), LAMBDA lhs :
              Let(Add(kind, b.val, c.val), LAMBDA bc :
              Let(IF bc.ok THEN Add(kind, a.val, bc.val) ELSE bc, LAMBDA rhs :
              IF ~lhs.ok \/ ~rhs.ok THEN Failed("associative", "panic")
              ELSE IF lhs.val # rhs.val THEN Failed("associative", "assert_eq")
              ELSE [stage |-> "done", res |-> "Ok", input |-> lhs.val]))))))))

CallAdditionLaws ==
    /\ LibIdle
    /\ \E kind \in PointKinds, sk_a \in Scalars, sk_b \in Scalars, sk_c \in Scalars :
          Made("addition_is_commutative_and_associative",
               [kind |-> kind, a |-> sk_a, b |-> sk_b, c |-> sk_c],
               addition_is_commutative_and_associative(kind, sk_a, sk_b, sk_c))

(* g1.rs tests g1_keygen_roundtrip_random and                             *)
(* g1_compress_decompress_idempotent, hash.rs test                         *)
(* hash_to_curve_compress_decompress_roundtrip, for every point the        *)
(* library makes from a scalar or a message.                               *)
Origins == {"G1Point::try_from(PrivKey)", "hash_to_curve", "PrivKey::sign",
            "G2Point::try_from(&PrivKey)",
            "min_pk::G1Point::try_from(PrivKey)", "min_pk::G1Point::try_from(&PrivKey)",
            "min_pk::try_hash_to_curve", "min_pk::PrivKey::sign"}

KindOf(origin) ==
    CASE origin \in {"G1Point::try_from(PrivKey)", "hash_to_curve", "PrivKey::sign"}
            -> "G1Point"
      [] origin = "G2Point::try_from(&PrivKey)" -> "G2Point"
      [] origin \in {"min_pk::G1Point::try_from(PrivKey)",
                     "min_pk::G1Point::try_from(&PrivKey)"} -> "min_pk::G1Point"
      [] OTHER -> "min_pk::G2Point"

Materialize(origin, sk, msg) ==
    CASE origin = "G1Point::try_from(PrivKey)" -> G1Point_try_from_PrivKey(sk)
      [] origin = "hash_to_curve" -> hash_to_curve(msg)
      [] origin = "PrivKey::sign" ->
            LET sig == PrivKey_sign(sk, msg)
            IN  IF sig.res = "Ok" THEN Ok(sig.input) ELSE Err(sig.res)
      [] origin = "G2Point::try_from(&PrivKey)" -> G2Point_try_from_PrivKey(sk)
      [] origin = "min_pk::G1Point::try_from(PrivKey)" -> min_pk_G1Point_try_from_PrivKey(sk)
      [] origin = "min_pk::G1Point::try_from(&PrivKey)" ->
            min_pk_G1Point_try_from_ref_PrivKey(sk)
      [] origin = "min_pk::try_hash_to_curve" -> try_hash_to_curve(msg)
      [] origin = "min_pk::PrivKey::sign" -> min_pk_PrivKey_sign(sk, msg)

Compress(kind, point) ==
    CASE kind = "G1Point" -> G1CompressedPoint_try_from_G1Point(point)
      [] kind = "G2Point" -> G2CompressedPoint_try_from_G2Point(point)
      [] kind = "min_pk::G1Point" -> min_pk_G1CompressedPoint_try_from_G1Point(point)
      [] kind = "min_pk::G2Point" -> min_pk_G2CompressedPoint_try_from_G2Point(point)

Decompress(kind, compressed) ==
    CASE kind = "G1Point" -> G1Point_try_from_G1CompressedPoint(compressed)
      [] kind = "G2Point" -> G2Point_try_from_G2CompressedPoint(compressed)
      [] kind = "min_pk::G1Point" -> min_pk_G1Point_try_from_G1CompressedPoint(compressed)
      [] kind = "min_pk::G2Point" -> min_pk_G2Point_try_from_G2CompressedPoint(compressed)

(* The compressed key derived from the scalar itself.                      *)
CompressedKey(origin, sk) ==
    CASE origin = "G1Point::try_from(PrivKey)" -> G1CompressedPoint_try_from_PrivKey(sk)
      [] origin = "G2Point::try_from(&PrivKey)" -> G2CompressedPoint_try_from_PrivKey(sk)
      [] origin = "min_pk::G1Point::try_from(PrivKey)" ->
            min_pk_G1CompressedPoint_try_from_PrivKey(sk)
      [] origin = "min_pk::G1Point::try_from(&PrivKey)" ->
            min_pk_G1CompressedPoint_try_from_ref_PrivKey(sk)
      [] OTHER -> Err("none")

Roundtrip(point, compressed, decomp) ==
    [stage |-> "done", res |-> IF decomp = point THEN "Ok" ELSE "assert_eq",
     input |-> point, compressed |-> compressed, decomp |-> decomp]

compress_decompress_roundtrip(origin, sk, msg) ==
    Let(Materialize(origin, sk, msg), LAMBDA p :
    IF ~p.ok THEN Failed("point", p.err)
    ELSE Let(Compress(KindOf(origin), p.val), LAMBDA c :
         IF ~c.ok THEN Failed("compress", c.err)
         ELSE Let(Decompress(KindOf(origin), c.val), LAMBDA d :
              IF ~d.ok THEN Failed("decompress", d.err)
              ELSE Roundtrip(p.val, c.val, d.val))))

keygen_roundtrip(origin, sk) ==
    Let(Materialize(origin, sk, <<>>), LAMBDA pk_uncompressed :
    Let(CompressedKey(origin, sk), LAMBDA pk_compressed :
    IF ~pk_uncompressed.ok THEN Failed("point", pk_uncompressed.err)
    ELSE IF ~pk_compressed.ok THEN Failed("compress", pk_compressed.err)
    ELSE Let(Decompress(KindOf(origin), pk_compressed.val), LAMBDA decomp :
         IF ~decomp.ok THEN Failed("decompress", decomp.err)
         ELSE Roundtrip(pk_uncompressed.val, pk_compressed.val, decomp.val))))

CallRoundtrip ==
    /\ LibIdle
    /\ \E origin \in Origins, sk \in Scalars, msg \in Messages :
          \/ Made("compress_decompress_roundtrip",
                  [origin |-> origin, sk |-> sk, message |-> msg],
                  compress_decompress_roundtrip(origin, sk, msg))
          \/ /\ CompressedKey(origin, sk) # Err("none")
             /\ Made("keygen_roundtrip", [origin |-> origin, sk |-> sk, message |-> msg],
                     keygen_roundtrip(origin, sk))

(* The ways the library adds two G1 points.                                *)
G1Adders == {"G1Point::add", "G1Point::checked_add",
             "min_pk::G1Point::add", "min_pk::G1Point::checked_add",
             "aggregate_partials", "threshold::aggregate_partials"}

G1Operands == {G1Exp(k) : k \in {0, 1, 2, GROUP_ORDER - 1}} \cup {InvalidG1}

Aggregated2(ret) == Let(ret, LAMBDA v : IF v.res = "Ok" THEN Ok(v.input) ELSE Err(v.res))

g1_add(via, lhs, rhs) ==
    CASE via = "G1Point::add" -> G1Point_add(lhs, rhs)
      [] via = "G1Point::checked_add" -> G1Point_checked_add(lhs, rhs)
      [] via = "min_pk::G1Point::add" -> min_pk_G1Point_add(lhs, rhs)
      [] via = "min_pk::G1Point::checked_add" -> min_pk_G1Point_checked_add(lhs, rhs)
      [] via = "aggregate_partials" -> Aggregated2(aggregate_partials(<<lhs, rhs>>))
      [] via = "threshold::aggregate_partials" ->
            Aggregated2(threshold_aggregate_partials(<<lhs, rhs>>))

CallG1Add ==
    /\ LibIdle
    /\ \E via \in G1Adders, lhs \in G1Operands, rhs \in G1Operands :
          Made(via, [lhs |-> lhs, rhs |-> rhs],
               [res |-> Returned(g1_add(via, lhs, rhs)).res,
                input |-> Returned(g1_add(via, lhs, rhs)).bytes,
                oracle |-> alt_bn128_addition(lhs \o rhs).ok])

(* The operations that make a G1 point from a scalar with the host         *)
(* multiplication oracle.                                                  *)
Derivers == {"G1Point::try_from(PrivKey)", "G1CompressedPoint::try_from(PrivKey)",
             "min_pk::G1Point::try_from(PrivKey)",
             "min_pk::G1CompressedPoint::try_from(PrivKey)",
             "bls_partial_sign", "bls_partial_sign_augmented",
             "threshold::bls_partial_sign"}

Compressing == {"G1CompressedPoint::try_from(PrivKey)",
                "min_pk::G1CompressedPoint::try_from(PrivKey)"}

derive_g1(op, sk, msg) ==
    CASE op = "G1Point::try_from(PrivKey)" -> G1Point_try_from_PrivKey(sk)
      [] op = "G1CompressedPoint::try_from(PrivKey)" -> G1CompressedPoint_try_from_PrivKey(sk)
      [] op = "min_pk::G1Point::try_from(PrivKey)" -> min_pk_G1Point_try_from_PrivKey(sk)
      [] op = "min_pk::G1CompressedPoint::try_from(PrivKey)" ->
            min_pk_G1CompressedPoint_try_from_PrivKey(sk)
      [] op = "bls_partial_sign" -> Aggregated2(bls_partial_sign(sk, msg))
      [] op = "bls_partial_sign_augmented" ->
            Aggregated2(bls_partial_sign_augmented(sk, msg, G2Exp(from_be_bytes(sk))))
      [] op = "threshold::bls_partial_sign" ->
            Aggregated2(threshold_bls_partial_sign(sk, msg))

(* Which oracle refused first in the derivation, "none" if none did.       *)
Refused(op, sk) ==
    LET product == alt_bn128_multiplication(G1_ONE \o sk)
    IN  IF ~product.ok THEN "mul"
        ELSE IF op \in Compressing /\ ~alt_bn128_g1_compress(product.val).ok
        THEN "compress"
        ELSE "none"

CallDerive ==
    /\ LibIdle
    /\ \E op \in Derivers, sk \in Scalars, msg \in Messages :
          Made(op, [sk |-> sk, message |-> msg],
               [res |-> Returned(derive_g1(op, sk, msg)).res,
                input |-> Returned(derive_g1(op, sk, msg)).bytes,
                refused |-> Refused(op, sk)])

(***************************************************************************)
(* A scalar of [GROUP_ORDER, MODULUS), which from_random may return, used  *)
(* as a key, next to the same use of the scalar reduced modulo             *)
(* GROUP_ORDER.                                                            *)
(***************************************************************************)
WrappingScalars == {<<31>>, <<32>>, <<42>>}
ScalarUsers == {"G1Point::try_from(PrivKey)", "G2CompressedPoint::try_from(&PrivKey)",
                "G2Point::try_from(&PrivKey)", "PrivKey::sign", "min_pk::PrivKey::sign"}
HostUsers == {"G1Point::try_from(PrivKey)", "PrivKey::sign"}

Reduced(sk) == pad32(to_be_bytes(from_be_bytes(sk) % GROUP_ORDER))

use_scalar(fn, sk, msg) ==
    CASE fn = "G1Point::try_from(PrivKey)" -> G1Point_try_from_PrivKey(sk)
      [] fn = "G2CompressedPoint::try_from(&PrivKey)" -> G2CompressedPoint_try_from_PrivKey(sk)
      [] fn = "G2Point::try_from(&PrivKey)" -> G2Point_try_from_PrivKey(sk)
      [] fn = "PrivKey::sign" -> Aggregated2(PrivKey_sign(sk, msg))
      [] fn = "min_pk::PrivKey::sign" -> min_pk_PrivKey_sign(sk, msg)

CallWrappingScalar ==
    /\ LibIdle
    /\ \E fn \in ScalarUsers, sk \in WrappingScalars, msg \in Messages :
          Made("scalar in [r, p)", [fn |-> fn, sk |-> sk, message |-> msg],
               [got |-> Returned(use_scalar(fn, sk, msg)),
                reduced |-> Returned(use_scalar(fn, Reduced(sk), msg))])

(***************************************************************************)
(* aggregate_partials over a list of valid G1 points, over the same list   *)
(* in another order, and over each prefix of the list.                     *)
(***************************************************************************)
Aggregators == {"aggregate_partials", "threshold::aggregate_partials"}

ValidG1 == {G1Exp(k) : k \in {0, 1, 2, GROUP_ORDER - 1}}

Orders(n) == {p \in [1..n -> 1..n] : \A i, j \in 1..n : p[i] = p[j] => i = j}

aggregate(via, list) ==
    IF via = "aggregate_partials" THEN aggregate_partials(list)
    ELSE threshold_aggregate_partials(list)

CallAggregateOrder ==
    /\ LibIdle
    /\ \E via \in Aggregators, list \in Lists(ValidG1) :
          \E p \in Orders(Len(list)) :
             Made("aggregate in order", [via |-> via, partials |-> list, order |-> p],
                  [given |-> Returned(Aggregated2(aggregate(via, list))),
                   permuted |-> Returned(Aggregated2(
                                   aggregate(via, [i \in 1..Len(list) |-> list[p[i]]]))),
                   prefix |-> [j \in 1..Len(list) |->
                                 Returned(Aggregated2(aggregate(via, SubSeq(list, 1, j))))],
                   adds |-> aggregate(via, list).calls.add])

(***************************************************************************)
(* verify_fast_aggregate over a duplicate-free list of G2 public keys,     *)
(* next to G2Point::verify under the sum of the keys made with the         *)
(* operator +.                                                             *)
(***************************************************************************)
ValidG2 == {G2Exp(k) : k \in {0, 1, 2, GROUP_ORDER - 1}}

G1Group == {G1Exp(k) : k \in 0..(GROUP_ORDER - 1)}

verify_under_sum(pks, s, msg) ==
    Let(Sum("G2Point", pks), LAMBDA pk_agg :
    IF ~pk_agg.ok THEN [sum |-> Returned(pk_agg), res |-> "panic"]
    ELSE [sum |-> Returned(pk_agg), res |-> G2Point_verify(pk_agg.val, s, msg).res])

CallFastAggregate ==
    /\ LibIdle
    /\ \E pks \in Lists(ValidG2), s \in G1Group, msg \in Messages :
          /\ check_no_duplicate_pubkeys(pks)
          /\ Made("fast aggregate under the summed key",
                  [pks |-> pks, sig |-> s, message |-> msg],
                  [fast |-> verify_fast_aggregate(msg, pks, s).res,
                   single |-> verify_under_sum(pks, s, msg)])

(***************************************************************************)
(* min_sig/g2_point.rs: verification under a compressed G2 public key of a *)
(* signature handed over as a compressed G1 point.                         *)
(***************************************************************************)
min_sig_BLSSignature_to_bytes(signature) ==
    LET d == alt_bn128_g1_decompress(signature)
    IN  IF d.ok THEN Ok(d.val) ELSE Err("G1PointDecompressionError")

min_sig_G2CompressedPoint_verify_signature(self, signature, msg) ==
    Let(min_sig_try_hash_to_curve(msg), LAMBDA h :
    IF ~h.ok THEN Ret(h.err, Calls(1, 0, 0, 0, 0), <<msg>>, <<>>)
    ELSE Let(G2Point_try_from_G2CompressedPoint(self), LAMBDA pk :
         IF ~pk.ok THEN Ret(pk.err, Calls(1, 0, 0, 0, 0), <<msg>>, <<>>)
         ELSE Let(min_sig_BLSSignature_to_bytes(signature), LAMBDA sig :
              IF ~sig.ok THEN Ret(sig.err, Calls(1, 0, 0, 0, 0), <<msg>>, <<>>)
              ELSE pairing_outcome(single_input(h.val, pk.val, sig.val),
                                   Calls(1, 0, 0, 1, 0), <<msg>>))))

(***************************************************************************)
(* test-program/src/lib.rs: the on-chain program.  An instruction is a tag *)
(* byte, a compressed public key, a compressed signature and the message.  *)
(***************************************************************************)
G1_COMPRESSED_LEN == FIELD_BYTES
G2_COMPRESSED_LEN == 2 * FIELD_BYTES

(* ix[start..end] and ix[start..]: a panic when the range leaves the slice. *)
slice(ix, start, end) ==
    IF start > end \/ end > Len(ix) THEN Err("panic")
    ELSE Ok(SubSeq(ix, start + 1, end))

slice_from(ix, start) == slice(ix, start, Len(ix))

ProgramResult(res, pairings) == [res |-> res, pairings |-> pairings]

process_min_sig(ix, PK_LEN, SIG_LEN) ==
    IF Len(ix) < 1 + PK_LEN + SIG_LEN THEN ProgramResult("InvalidInstructionData", 0)
    ELSE LET pk == slice(ix, 1, 1 + PK_LEN)
             sig == slice(ix, 1 + PK_LEN, 1 + PK_LEN + SIG_LEN)
             msg == slice_from(ix, 1 + PK_LEN + SIG_LEN)
         IN  IF ~pk.ok \/ ~sig.ok \/ ~msg.ok THEN ProgramResult("panic", 0)
             ELSE Let(min_sig_G2CompressedPoint_verify_signature(pk.val, sig.val, msg.val),
                      LAMBDA v :
                  IF v.res # "Ok"
                  THEN ProgramResult("MissingRequiredSignature", v.calls.pairing)
                  ELSE ProgramResult("Ok", v.calls.pairing))

process_min_pk(ix, PK_LEN, SIG_LEN) ==
    IF Len(ix) < 1 + PK_LEN + SIG_LEN THEN ProgramResult("InvalidInstructionData", 0)
    ELSE LET _pk == slice(ix, 1, 1 + PK_LEN)
             _sig == slice(ix, 1 + PK_LEN, 1 + PK_LEN + SIG_LEN)
             _msg == slice_from(ix, 1 + PK_LEN + SIG_LEN)
         IN  IF ~_pk.ok \/ ~_sig.ok \/ ~_msg.ok THEN ProgramResult("panic", 0)
             ELSE ProgramResult("Ok", 0)

process_instruction_unverified(ix) ==
    IF ix = <<>> THEN ProgramResult("InvalidInstructionData", 0)
    ELSE CASE ix[1] = 0 -> process_min_pk(ix, G2_COMPRESSED_LEN, G1_COMPRESSED_LEN)
           [] ix[1] = 1 -> process_min_pk(ix, G1_COMPRESSED_LEN, G2_COMPRESSED_LEN)
           [] OTHER -> ProgramResult("InvalidInstructionData", 0)

process_instruction(ix) ==
    IF ix = <<>> THEN ProgramResult("InvalidInstructionData", 0)
    ELSE CASE ix[1] = 0 -> process_min_sig(ix, G2_COMPRESSED_LEN, G1_COMPRESSED_LEN)
           [] ix[1] = 1 -> process_min_pk(ix, G1_COMPRESSED_LEN, G2_COMPRESSED_LEN)
           [] OTHER -> ProgramResult("InvalidInstructionData", 0)

(* Instruction data: a tag followed by any prefix of a public key, a       *)
(* signature and a message, the signature being a byte that decompresses   *)
(* to the hash of the message times 1 or 2, or a byte that does not        *)
(* decompress.                                                             *)
Tags == {0, 1, 2, 255}
InstructionKeys == {G2CompressedPoint_try_from_PrivKey(<<k>>).val : k \in {1, 2}}
                       \cup {<<0, 0>>, <<1, 1>>}
InstructionMessages == {<<>>, <<97>>, <<98>>}

InstructionSignatures(m) ==
    LET h == G1Log(min_sig_try_hash_to_curve(m).val)
        Signs(b) == LET d == alt_bn128_g1_decompress(<<b>>)
                    IN  d.ok /\ \E k \in {1, 2} : d.val = G1Exp(k * h)
    IN  {<<b>> : b \in {c \in 0..(BYTE - 1) : Signs(c)}} \cup {<<63>>}

InstructionBodies ==
    UNION {{pk \o sig \o m : pk \in InstructionKeys, sig \in InstructionSignatures(m)} :
              m \in InstructionMessages}

Instructions ==
    {<<>>} \cup UNION {{<<tag>> \o SubSeq(b, 1, n) : tag \in Tags, n \in 0..Len(b)} :
                          b \in InstructionBodies}

CallProcessInstruction ==
    /\ LibIdle
    /\ \E ix \in Instructions :
          Made("process_instruction", [ix |-> ix], process_instruction(ix))

LibNext ==
    \/ CallVerify
    \/ CallVerifySignature
    \/ CallPerpsAggregation
    \/ CallAdditionLaws
    \/ CallRoundtrip
    \/ CallG1Add
    \/ CallDerive
    \/ CallWrappingScalar
    \/ CallAggregateOrder
    \/ CallFastAggregate
    \/ CallProcessInstruction

SpecLib == LibInit /\ [][LibNext]_vars

(***************************************************************************)
(* Repeated calls.  A caller hashes or signs, remembers the call in memo,  *)
(* makes other calls of the four functions, and repeats the remembered     *)
(* call.                                                                   *)
(***************************************************************************)
MaxGap == 2

DetOps == {"hash_to_curve", "PrivKey::sign",
           "min_pk::try_hash_to_curve", "min_pk::PrivKey::sign"}

DetArgs(op) ==
    IF op \in {"hash_to_curve", "min_pk::try_hash_to_curve"}
    THEN [sk : {<<>>}, message : Messages]
    ELSE [sk : Scalars, message : Messages]

Invoke(op, args) ==
    CASE op = "hash_to_curve" -> Returned(hash_to_curve(args.message))
      [] op = "PrivKey::sign" ->
            LET sig == PrivKey_sign(args.sk, args.message)
            IN  [res |-> sig.res, bytes |-> sig.input]
      [] op = "min_pk::try_hash_to_curve" -> Returned(try_hash_to_curve(args.message))
      [] op = "min_pk::PrivKey::sign" ->
            Returned(min_pk_PrivKey_sign(args.sk, args.message))

Invocation(op, args) == [op |-> op, args |-> args, out |-> Invoke(op, args)]

DetFirst ==
    /\ memo.op = "none"
    /\ \E op \in DetOps : \E args \in DetArgs(op) :
          /\ memo' = Invocation(op, args)
          /\ call' = Invocation(op, args)
    /\ UNCHANGED <<fault, gap, sweep>>
    /\ UNCHANGED client

DetOther ==
    /\ memo.op # "none"
    /\ gap < MaxGap
    /\ \E op \in DetOps : \E args \in DetArgs(op) :
          /\ <<op, args>> # <<memo.op, memo.args>>
          /\ call' = Invocation(op, args)
    /\ gap' = gap + 1
    /\ UNCHANGED <<fault, memo, sweep>>
    /\ UNCHANGED client

DetRepeat ==
    /\ memo.op # "none"
    /\ call' = Invocation(memo.op, memo.args)
    /\ UNCHANGED <<fault, memo, gap, sweep>>
    /\ UNCHANGED client

DetNext ==
    \/ DetFirst
    \/ DetOther
    \/ DetRepeat

SpecDet == LibInit /\ [][DetNext]_vars

(***************************************************************************)
(* C11: in every single-signature verify that reaches the pairing oracle,  *)
(* the result is Ok iff the oracle returns the encoding of one, any other  *)
(* returned value gives BLSVerificationError, and a failure of the oracle  *)
(* gives AltBN128PairingError.                                             *)
(***************************************************************************)
SingleVerifyOps == {"G2Point::verify", "G2CompressedPoint::verify",
                    "G1Point::verify_signature", "G1CompressedPoint::verify_signature"}

PairingReached == call.op \in SingleVerifyOps /\ call.out.input # <<>>

C11_OutcomeMapping ==
    PairingReached =>
        LET r == alt_bn128_pairing(call.out.input)
        IN  /\ (call.out.res = "Ok") <=> (r.ok /\ r.val = GT_ONE)
            /\ (r.ok /\ r.val # GT_ONE) => call.out.res = "BLSVerificationError"
            /\ ~r.ok => call.out.res = "AltBN128PairingError"

(***************************************************************************)
(* What the code does for C11: the min-sig verifiers map as stated; the    *)
(* min-pk verifiers report a failure of the pairing oracle as              *)
(* BLSVerificationError.                                                   *)
(***************************************************************************)
C11_MinPkOracleFailure ==
    PairingReached =>
        LET r == alt_bn128_pairing(call.out.input)
        IN  /\ (call.out.res = "Ok") <=> (r.ok /\ r.val = GT_ONE)
            /\ (r.ok /\ r.val # GT_ONE) => call.out.res = "BLSVerificationError"
            /\ ~r.ok => call.out.res =
                   (IF call.op \in {"G2Point::verify", "G2CompressedPoint::verify"}
                    THEN "AltBN128PairingError" ELSE "BLSVerificationError")

C11_Witness ==
    /\ PairingReached
    /\ call.op = "G1Point::verify_signature"
    /\ fault = "none"
    /\ call.args.pk = Raw
    /\ ~alt_bn128_pairing(call.out.input).ok
    /\ call.out.res = "BLSVerificationError"

(***************************************************************************)
(* C12: for every non-empty list of keys and every message, the sum with   *)
(* + of the signatures verifies under the sum with + of the public keys,   *)
(* in min-sig and in min-pk.  The keys are taken in [1, r), where every    *)
(* key and every signature is derived, and the host refuses nothing.       *)
(***************************************************************************)
AggregationOps == {"perps_aggregation", "min_pk::perps_aggregation"}

NonZeroKeys(sks) ==
    \A j \in 1..Len(sks) : from_be_bytes(sks[j]) \in 1..(GROUP_ORDER - 1)

C12_AggregationHomomorphism ==
    (call.op \in AggregationOps /\ fault = "none" /\ NonZeroKeys(call.args.sks))
        => call.out.res = "Ok"

(***************************************************************************)
(* What the code does for C12: the aggregate verifies unless an operand of *)
(* a G2 addition is the point at infinity, in which case + panics.  That   *)
(* happens when a proper prefix of the keys sums to 0 modulo r.            *)
(***************************************************************************)
RECURSIVE KeySum(_)
KeySum(sks) ==
    IF sks = <<>> THEN 0
    ELSE (KeySum(SubSeq(sks, 1, Len(sks) - 1)) + from_be_bytes(sks[Len(sks)])) % GROUP_ORDER

PrefixVanishes(sks) ==
    \E n \in 1..(Len(sks) - 1) : KeySum(SubSeq(sks, 1, n)) = 0

C12_PanicsOnIdentityOperand ==
    (call.op \in AggregationOps /\ fault = "none" /\ NonZeroKeys(call.args.sks))
        => IF PrefixVanishes(call.args.sks)
           THEN /\ call.out.res = "panic"
                /\ call.out.stage = (IF call.op = "perps_aggregation"
                                     THEN "pubkey_agg" ELSE "sig_agg")
           ELSE call.out.res = "Ok"

C12_Witness ==
    /\ call.op = "perps_aggregation"
    /\ fault = "none"
    /\ call.args.sks = <<<<1>>, <<30>>, <<2>>>>
    /\ call.out.res = "panic"

(***************************************************************************)
(* C13: for every scalar sk that from_random can return (any value below   *)
(* MODULUS) and every message m, the min-pk signature of m under sk        *)
(* verifies with verify_signature under the G1 key of sk, for the host and *)
(* the ark derivation of the key and for compressed and uncompressed key   *)
(* and signature.                                                          *)
(***************************************************************************)
MinPkVerifyOps == {"G1Point::verify_signature", "G1CompressedPoint::verify_signature"}

MinPkHonest ==
    /\ call.op \in MinPkVerifyOps
    /\ fault = "none"
    /\ call.args.pk = call.args.sk
    /\ call.args.signed = call.args.message

C13_MinPkSingleCorrect ==
    (MinPkHonest /\ from_be_bytes(call.args.sk) < MODULUS) => call.out.res = "Ok"

(***************************************************************************)
(* What the code does for C13: the signature verifies for every scalar     *)
(* below the group order; for a scalar in [r, MODULUS), which from_random  *)
(* returns, sign fails with SecretKeyError.                                *)
(***************************************************************************)
C13_CorrectBelowGroupOrder ==
    MinPkHonest =>
        IF from_be_bytes(call.args.sk) < GROUP_ORDER
        THEN call.out.res = "Ok" /\ call.out.stage = "verify"
        ELSE call.out.res = "SecretKeyError" /\ call.out.stage = "sign"

C13_Witness ==
    /\ MinPkHonest
    /\ call.args.sk = <<31>>
    /\ call.args.path = "host"
    /\ call.out.res = "SecretKeyError"

(***************************************************************************)
(* C14: hash_to_curve(m) and sign(sk, m) are functions of their arguments: *)
(* a call repeated with the same message (and key) returns the same        *)
(* bytes, or the same error kind, as the remembered call, whatever calls   *)
(* were made in between.                                                   *)
(***************************************************************************)
Repeated == call.op = memo.op /\ call.op # "none" /\ call.args = memo.args

C14_WitnessError ==
    /\ Repeated
    /\ gap >= 1
    /\ call.op = "min_pk::PrivKey::sign"
    /\ call.out.res = "SecretKeyError"

(***************************************************************************)
(* C15: every PrivKey value, and so every value returned by from_random,   *)
(* encodes an integer below the group order r.                             *)
(***************************************************************************)
C15_KeysBelowGroupOrder == \A sk \in keys : from_be_bytes(sk) < GROUP_ORDER

(***************************************************************************)
(* What the code does for C15: from_random compares with the field modulus *)
(* and returns the values of [r, MODULUS) as well.                         *)
(***************************************************************************)
C15_KeysBelowModulus == \A sk \in keys : from_be_bytes(sk) < MODULUS

C15_Witness ==
    /\ Idle
    /\ bytes = <<31>>
    /\ bytes \in keys
    /\ from_be_bytes(bytes) >= GROUP_ORDER

(***************************************************************************)
(* C16: from_random never returns a value outside [0, MODULUS): a sample   *)
(* at or above MODULUS is discarded and the loop samples again, and the    *)
(* bytes returned are exactly the accepted sample.                         *)
(***************************************************************************)
C16_ReturnsAcceptedSample ==
    /\ [](\A sk \in keys : from_be_bytes(sk) < MODULUS)
    /\ [][fr_pc = "loop" =>
            IF from_be_bytes(bytes') < MODULUS
            THEN fr_pc' = "idle" /\ keys' = keys \cup {bytes'}
            ELSE fr_pc' = "loop" /\ keys' = keys]_vars

C16_Witness ==
    /\ fr_pc = "loop"
    /\ bytes = <<43>>
    /\ <<31>> \in keys

(***************************************************************************)
(* C17: for all valid points P, Q, R of one group, P + Q = Q + P and       *)
(* (P + Q) + R = P + (Q + R) as bytes, for G1 addition and for G2          *)
(* addition.  The points are the keys (in min_pk the signatures) of        *)
(* scalars below r, and the host refuses nothing.                          *)
(***************************************************************************)
LawsChecked ==
    /\ call.op = "addition_is_commutative_and_associative"
    /\ fault = "none"
    /\ \A sk \in {call.args.a, call.args.b, call.args.c} :
          from_be_bytes(sk) < GROUP_ORDER

C17_GroupLaws == LawsChecked => call.out.res = "Ok"

(***************************************************************************)
(* What the code does for C17: G1 addition satisfies both laws; G2         *)
(* addition satisfies them unless an operand is the point at infinity,     *)
(* where + panics.                                                         *)
(***************************************************************************)
SumIsZero(x, y) == (from_be_bytes(x) + from_be_bytes(y)) % GROUP_ORDER = 0

C17_G2PanicsOnIdentity ==
    LawsChecked =>
        LET a == call.args.a
            b == call.args.b
            c == call.args.c
        IN  IF call.args.kind \in {"G1Point", "min_pk::G1Point"}
            THEN call.out.res = "Ok"
            ELSE IF <<0>> \in {a, b} THEN call.out = Failed("commutative", "panic")
            ELSE IF c = <<0>> \/ SumIsZero(a, b) \/ SumIsZero(b, c)
            THEN call.out = Failed("associative", "panic")
            ELSE call.out.res = "Ok"

C17_Witness ==
    /\ LawsChecked
    /\ call.args = [kind |-> "G2Point", a |-> <<1>>, b |-> <<30>>, c |-> <<2>>]
    /\ call.out = Failed("associative", "panic")

(***************************************************************************)
(* C18: for every point P the library makes (a public key derived from a   *)
(* scalar, a hash-to-curve output, a signature), decompress(compress(P))   *)
(* is P byte for byte, in G1 and in G2; and the decompressed compressed    *)
(* key derived from sk is the uncompressed key derived from sk.            *)
(***************************************************************************)
RoundtripOps == {"compress_decompress_roundtrip", "keygen_roundtrip"}

C18_CompressionRoundtrip ==
    (call.op \in RoundtripOps /\ fault = "none" /\ call.out.stage # "point")
        => /\ call.out.res = "Ok"
           /\ call.out.decomp = call.out.input

C18_Witness ==
    /\ call.op = "compress_decompress_roundtrip"
    /\ fault = "none"
    /\ call.args.origin = "min_pk::PrivKey::sign"
    /\ call.out.res = "Ok"
    /\ call.out.input # G2_ZERO
    /\ call.out.compressed[1] >= 128
    /\ call.out.decomp = call.out.input

(***************************************************************************)
(* C19: when the host addition oracle fails on the concatenation of the    *)
(* two operands, the addition of two G1 points returns AltBN128AddError to *)
(* the caller, without panic and with no other error kind, through the     *)
(* operator + and through aggregate_partials.                              *)
(***************************************************************************)
AddOracleFailed == call.op \in G1Adders /\ ~call.out.oracle

C19_AddFailureIsValue ==
    (AddOracleFailed /\ call.op \notin {"G1Point::checked_add",
                                        "min_pk::G1Point::checked_add"})
        => call.out.res = "AltBN128AddError"

(***************************************************************************)
(* What the code does for C19: aggregate_partials returns                  *)
(* AltBN128AddError; the operator + panics, and checked_add returns None.  *)
(***************************************************************************)
C19_OperatorPanics ==
    AddOracleFailed =>
        call.out.res =
            CASE call.op \in {"aggregate_partials", "threshold::aggregate_partials"}
                    -> "AltBN128AddError"
              [] call.op \in {"G1Point::add", "min_pk::G1Point::add"} -> "panic"
              [] OTHER -> "None"

C19_Witness ==
    /\ AddOracleFailed
    /\ call.op = "G1Point::add"
    /\ fault = "add"
    /\ call.args = [lhs |-> G1Exp(1), rhs |-> G1Exp(2)]
    /\ call.out.res = "panic"

(***************************************************************************)
(* C20: every operation that derives a G1 point from a scalar reports a    *)
(* failure of the multiplication oracle as AltBN128MulError, and a failure *)
(* of the compression that follows as G1PointCompressionError.             *)
(***************************************************************************)
C20_DerivationErrors ==
    call.op \in Derivers =>
        /\ call.out.refused = "mul" => call.out.res = "AltBN128MulError"
        /\ call.out.refused = "compress" => call.out.res = "G1PointCompressionError"

(***************************************************************************)
(* What the code does for C20: G1Point::try_from(PrivKey) reports the      *)
(* refused multiplication as SecretKeyError, and                           *)
(* G1CompressedPoint::try_from(PrivKey) the refused compression as         *)
(* SecretKeyError; the other operations report AltBN128MulError.           *)
(***************************************************************************)
C20_SecretKeyErrorInstead ==
    call.op \in Derivers =>
        /\ call.out.refused = "mul" =>
              call.out.res = (IF call.op \in {"G1Point::try_from(PrivKey)",
                                              "min_pk::G1Point::try_from(PrivKey)"}
                              THEN "SecretKeyError" ELSE "AltBN128MulError")
        /\ call.out.refused = "compress" => call.out.res = "SecretKeyError"
        /\ call.out.refused = "none" => call.out.res = "Ok"

C20_Witness ==
    /\ call.op = "G1Point::try_from(PrivKey)"
    /\ fault = "mul"
    /\ call.args.sk = <<2>>
    /\ call.out.refused = "mul"
    /\ call.out.res = "SecretKeyError"

(***************************************************************************)
(* Hash-to-curve as the loop it is.  A caller hashes one message with one  *)
(* of the three functions; each step is one iteration of the sweep over    *)
(* the nonces, and the caller draws its keys once the hash has returned    *)
(* or instead of hashing.  The host may refuse every decompression.        *)
(***************************************************************************)
SweepOps == {"hash_to_curve", "min_sig::try_hash_to_curve", "min_pk::try_hash_to_curve"}
SweepMessages == {<<97>>, <<104>>, <<112>>, <<122>>}
SweepFaults == {"none", "g1_decompress", "g2_decompress", "mul"}
NONCES == 255

AttemptOf(op, m, n) ==
    CASE op = "hash_to_curve" -> hash_attempt(m, n)
      [] op = "min_sig::try_hash_to_curve" -> min_sig_try_hash_attempt(m, n)
      [] op = "min_pk::try_hash_to_curve" -> try_hash_attempt(m, n)

HashOf(op, m) ==
    CASE op = "hash_to_curve" -> hash_to_curve(m)
      [] op = "min_sig::try_hash_to_curve" -> min_sig_try_hash_to_curve(m)
      [] op = "min_pk::try_hash_to_curve" -> try_hash_to_curve(m)

SweepInit ==
    /\ keys = {}
    /\ fr_pc = "idle"
    /\ bytes = <<0>>
    /\ message = <<97>>
    /\ partials = <<>>
    /\ s_sum = Ret("none", NoCalls, <<>>, <<>>)
    /\ last = NoCall
    /\ fault \in SweepFaults
    /\ call = NoLibCall
    /\ memo = NoLibCall
    /\ gap = 0
    /\ sweep = NoSweep

SweepStart ==
    /\ sweep.pc = "idle"
    /\ Idle
    /\ LibIdle
    /\ keys = {}
    /\ \E op \in SweepOps : \E m \in SweepMessages :
          sweep' = [NoSweep EXCEPT !.pc = "loop", !.op = op, !.message = m]
    /\ UNCHANGED <<fault, call, memo, gap>>
    /\ UNCHANGED client

SweepStep ==
    /\ sweep.pc = "loop"
    /\ sweep' = Let(AttemptOf(sweep.op, sweep.message, sweep.n), LAMBDA a :
                 LET returns == a.out.ok \/ a.out.err \notin {"None", "continue"}
                     exhausted == ~returns /\ sweep.n + 1 >= NONCES
                 IN  [sweep EXCEPT
                        !.digest = a.digest,
                        !.asked = a.asked,
                        !.calls = @ + Len(a.asked),
                        !.iters = @ + 1,
                        !.n = IF returns THEN @ ELSE @ + 1,
                        !.pc = IF returns \/ exhausted THEN "done" ELSE "loop",
                        !.out = IF returns THEN a.out
                                ELSE IF exhausted THEN Err("HashToCurveError")
                                ELSE @])
    /\ UNCHANGED <<fault, call, memo, gap>>
    /\ UNCHANGED client

SweepFromRandomCall == sweep.pc # "loop" /\ LibIdle /\ from_random_call
SweepFromRandomLoop == sweep.pc # "loop" /\ from_random_loop

from_random_return == from_random_loop /\ fr_pc' = "idle"

(* The three min-sig signing functions on one scalar and one message, by a *)
(* caller that does nothing else.                                          *)
SignScalars == {<<0>>, <<1>>, <<2>>, <<30>>, <<31>>, <<42>>, <<43>>, <<255>>}

SweepSign ==
    /\ sweep.pc = "idle"
    /\ Idle
    /\ keys = {}
    /\ LibIdle
    /\ \E sk \in SignScalars, m \in SweepMessages :
          call' = Let(hash_to_curve(m), LAMBDA h :
                  [op |-> "sign three ways",
                   args |-> [sk |-> sk, message |-> m],
                   out |-> [hash |-> Returned(h),
                            privkey |-> Returned(Aggregated2(PrivKey_sign(sk, m))),
                            utils |-> Returned(Aggregated2(bls_partial_sign(sk, m))),
                            threshold |-> Returned(Aggregated2(
                                             threshold_bls_partial_sign(sk, m)))]])
    /\ UNCHANGED <<fault, memo, gap, sweep>>
    /\ UNCHANGED client

SweepNext ==
    \/ SweepStart
    \/ SweepStep
    \/ SweepFromRandomCall
    \/ SweepFromRandomLoop
    \/ SweepSign

SpecSweep ==
    /\ SweepInit
    /\ [][SweepNext]_vars
    /\ WF_vars(SweepStep)
    /\ WF_vars(from_random_return)

(***************************************************************************)
(* C21: the G1 hash-to-curve functions return the decompressed point of    *)
(* the smallest nonce of 0..254 whose digest is below NORMALIZE_MODULUS    *)
(* and whose reduced value, as a 32-byte coordinate, decompresses; they    *)
(* hand no digest at or above NORMALIZE_MODULUS to the oracle; and they    *)
(* return HashToCurveError exactly when no nonce qualifies.                *)
(***************************************************************************)
G1SweepOps == {"hash_to_curve", "min_sig::try_hash_to_curve"}

Digest(op, m, n) ==
    from_be_bytes(hashv(IF op = "hash_to_curve" THEN <<DST, m, <<n>>>> ELSE <<m, <<n>>>>))

Coordinate(op, m, n) == pad32(to_be_bytes(Digest(op, m, n) % MODULUS))

Qualifies(op, m, n) ==
    /\ Digest(op, m, n) < NORMALIZE_MODULUS
    /\ alt_bn128_g1_decompress(Coordinate(op, m, n)).ok

Qualifying(op, m) == {n \in 0..(NONCES - 1) : Qualifies(op, m, n)}

Smallest(S) == CHOOSE n \in S : \A k \in S : n <= k

C21_TryAndIncrement ==
    sweep.op \in G1SweepOps =>
        /\ sweep.asked # <<>> => sweep.digest[1] < NORMALIZE_MODULUS
        /\ sweep.pc = "done" =>
              LET Q == Qualifying(sweep.op, sweep.message)
              IN  IF Q = {} THEN sweep.out = Err("HashToCurveError")
                  ELSE /\ sweep.n = Smallest(Q)
                       /\ sweep.out = Ok(alt_bn128_g1_decompress(
                               Coordinate(sweep.op, sweep.message, sweep.n)).val)

(***************************************************************************)
(* What the code does for C21: the sweep is in increasing order, skips the *)
(* digests at or above NORMALIZE_MODULUS without an oracle call, and stops *)
(* at the first nonce whose oracle call succeeds; the call is made on the  *)
(* shortest big-endian form of the reduced value, so a value with a zero   *)
(* leading byte is skipped as well.                                        *)
(***************************************************************************)
Accepted(op, m, n) ==
    /\ Digest(op, m, n) < NORMALIZE_MODULUS
    /\ alt_bn128_g1_decompress(to_be_bytes(Digest(op, m, n) % MODULUS)).ok

C21_SmallestAccepted ==
    sweep.op \in G1SweepOps =>
        /\ sweep.asked # <<>> => sweep.digest[1] < NORMALIZE_MODULUS
        /\ sweep.pc = "done" =>
              /\ sweep.out = HashOf(sweep.op, sweep.message)
              /\ LET Q == {n \in 0..(NONCES - 1) : Accepted(sweep.op, sweep.message, n)}
                 IN  IF Q = {} THEN sweep.out = Err("HashToCurveError")
                     ELSE /\ sweep.n = Smallest(Q)
                          /\ sweep.out.ok

C21_Witness ==
    /\ sweep.op = "hash_to_curve"
    /\ sweep.message = <<112>>
    /\ sweep.pc = "done"
    /\ sweep.n = 2
    /\ Qualifies(sweep.op, sweep.message, 1)

(***************************************************************************)
(* C22: every byte string handed to the decompression oracle by a          *)
(* hash-to-curve function is the reduced value in exactly 32 big-endian    *)
(* bytes, one such word in the G1 functions and two in the G2 function.    *)
(***************************************************************************)
Limbs(op) == IF op \in G1SweepOps THEN 1 ELSE 2

Limb(word, i) == SubSeq(word, (i - 1) * FIELD_BYTES + 1, i * FIELD_BYTES)

C22_OracleInputWidth ==
    \A j \in 1..Len(sweep.asked) :
        /\ Len(sweep.asked[j]) = Limbs(sweep.op) * FIELD_BYTES
        /\ \A i \in 1..Limbs(sweep.op) :
              from_be_bytes(Limb(sweep.asked[j], i)) = sweep.digest[i] % MODULUS

(***************************************************************************)
(* What the code does for C22: the G2 function pads each limb, the G1      *)
(* functions hand over the shortest form, which is shorter than a word     *)
(* when the reduced value has a zero leading byte.                         *)
(***************************************************************************)
C22_OnlyG2Padded ==
    \A j \in 1..Len(sweep.asked) :
        IF sweep.op \in G1SweepOps
        THEN sweep.asked[j] = to_be_bytes(sweep.digest[1] % MODULUS)
        ELSE sweep.asked[j] = pad32(to_be_bytes(sweep.digest[1] % MODULUS))
                              \o pad32(to_be_bytes(sweep.digest[2] % MODULUS))

C22_Witness ==
    /\ sweep.op = "min_sig::try_hash_to_curve"
    /\ sweep.asked = << <<>> >>
    /\ sweep.digest[1] % MODULUS = 0

C22_WitnessPadded ==
    /\ sweep.op = "min_pk::try_hash_to_curve"
    /\ sweep.asked # <<>>
    /\ sweep.digest[1] % MODULUS = 0

(***************************************************************************)
(* C24: the min-pk hash-to-curve sweeps the nonces 0..254 in increasing    *)
(* order, skips a nonce when one of its two digests is at or above         *)
(* NORMALIZE_MODULUS or when the G2 decompression of the candidate fails,  *)
(* returns the cofactor-cleared point of the first surviving nonce, and    *)
(* fails only with HashToCurveError and only after all 255 nonces.         *)
(***************************************************************************)
Candidate(m, n) ==
    pad32(to_be_bytes(from_be_bytes(hashv(<<m, <<n>>, C0>>)) % MODULUS))
    \o pad32(to_be_bytes(from_be_bytes(hashv(<<m, <<n>>, C1>>)) % MODULUS))

Survives(m, n) ==
    /\ from_be_bytes(hashv(<<m, <<n>>, C0>>)) < NORMALIZE_MODULUS
    /\ from_be_bytes(hashv(<<m, <<n>>, C1>>)) < NORMALIZE_MODULUS
    /\ alt_bn128_g2_decompress(Candidate(m, n)).ok

Surviving(m) == {n \in 0..(NONCES - 1) : Survives(m, n)}

C24_SweepSkipsAndClears ==
    sweep.op = "min_pk::try_hash_to_curve" =>
        /\ sweep.pc = "loop" => sweep.n = sweep.iters
        /\ sweep.pc = "loop" => \A j \in 0..(sweep.n - 1) : ~Survives(sweep.message, j)
        /\ sweep.pc = "done" =>
              /\ sweep.out = try_hash_to_curve(sweep.message)
              /\ IF Surviving(sweep.message) = {}
                 THEN /\ sweep.out = Err("HashToCurveError")
                      /\ sweep.iters = NONCES
                 ELSE /\ sweep.n = Smallest(Surviving(sweep.message))
                      /\ sweep.out = Ok(clear_cofactor(alt_bn128_g2_decompress(
                              Candidate(sweep.message, sweep.n)).val))

C24_Witness ==
    /\ sweep.op = "min_pk::try_hash_to_curve"
    /\ sweep.pc = "done"
    /\ sweep.out.ok
    /\ sweep.n > 0
    /\ \E j \in 0..(sweep.n - 1) :
          from_be_bytes(hashv(<<sweep.message, <<j>>, C0>>)) >= NORMALIZE_MODULUS
    /\ \E j \in 0..(sweep.n - 1) :
          /\ from_be_bytes(hashv(<<sweep.message, <<j>>, C0>>)) < NORMALIZE_MODULUS
          /\ from_be_bytes(hashv(<<sweep.message, <<j>>, C1>>)) < NORMALIZE_MODULUS
          /\ ~Survives(sweep.message, j)

C24_WitnessExhausted ==
    /\ sweep.op = "min_pk::try_hash_to_curve"
    /\ fault = "g2_decompress"
    /\ sweep.pc = "done"
    /\ sweep.out = Err("HashToCurveError")
    /\ sweep.iters = NONCES

(***************************************************************************)
(* C27: a hash-to-curve call returns after at most 255 iterations and at   *)
(* most 255 calls of the decompression oracle, and from_random returns as  *)
(* soon as a sample is below MODULUS, so it returns if such a sample is    *)
(* eventually drawn.                                                       *)
(***************************************************************************)
C27_BoundedLoops ==
    /\ [](sweep.iters <= NONCES /\ sweep.calls <= NONCES)
    /\ (sweep.pc = "loop" ~> sweep.pc = "done")
    /\ (fr_pc = "loop" ~> fr_pc = "idle")
    /\ [][fr_pc = "loop" /\ from_be_bytes(bytes') < MODULUS => fr_pc' = "idle"]_vars

C27_Witness ==
    /\ sweep.pc = "done"
    /\ sweep.iters = NONCES
    /\ sweep.calls > 200
    /\ Idle
    /\ bytes = <<31>>
    /\ bytes \in keys

(***************************************************************************)
(* C23: a scalar sk of [r, p) wraps silently: deriving the G1 key, the G2  *)
(* key and signing succeed and return the bytes they return for sk mod r.  *)
(***************************************************************************)
C23_ScalarsWrap ==
    call.op = "scalar in [r, p)" =>
        /\ call.out.got = call.out.reduced
        /\ fault = "none" => call.out.got.res = "Ok"

(***************************************************************************)
(* What the code does for C23: only the host's multiplication oracle       *)
(* wraps.  The derivation of a G2 key and the min-pk signature read the    *)
(* scalar with Fr::deserialize_compressed, which rejects a value at or     *)
(* above r, and return SecretKeyError.                                     *)
(***************************************************************************)
C23_OnlyTheHostWraps ==
    call.op = "scalar in [r, p)" /\ fault = "none" =>
        IF call.args.fn \in HostUsers
        THEN call.out.got.res = "Ok" /\ call.out.got = call.out.reduced
        ELSE call.out.got.res = "SecretKeyError" /\ call.out.reduced.res = "Ok"

C23_Witness ==
    /\ call.op = "scalar in [r, p)"
    /\ fault = "none"
    /\ call.args.fn = "G2Point::try_from(&PrivKey)"
    /\ call.args.sk = <<32>>
    /\ call.out.got.res = "SecretKeyError"
    /\ call.out.reduced = [res |-> "Ok", bytes |-> G2Exp(1)]

(***************************************************************************)
(* C25: for k signers the three aggregate verifiers hand the pairing       *)
(* oracle a buffer of k + 1 pairs of a G1 and a G2 point, every byte of it *)
(* written: pair i is H followed by PK_i in the caller's order, the last   *)
(* pair is the aggregate signature followed by G2_MINUS_ONE; H is the one  *)
(* hash of m in the fast and threshold verifiers and the hash of PK_i      *)
(* followed by m in the augmented verifier.                                *)
(***************************************************************************)
AggregateVerifiers == {"verify_fast_aggregate", "verify_augmented", "verify_a1_with_indices"}

SignerCount == IF last.op = "verify_a1_with_indices" THEN Len(last.indices) ELSE Len(last.pks)

SignerKey(i) ==
    IF last.op = "verify_a1_with_indices" THEN Registry[last.indices[i] + 1] ELSE last.pks[i]

SignerHash(i) ==
    IF last.op = "verify_augmented" THEN hash_to_curve(SignerKey(i) \o last.message).val
    ELSE hash_to_curve(last.message).val

PairingCalled == last.op \in AggregateVerifiers /\ last.out.calls.pairing = 1

C25_PairingInputLayout ==
    PairingCalled =>
        LET k == SignerCount
            input == last.out.input
        IN  /\ Len(input) = 6 * FIELD_BYTES * (k + 1)
            /\ \A i \in 1..k :
                  /\ SubSeq(input, 6 * (i - 1) + 1, 6 * (i - 1) + 2) = SignerHash(i)
                  /\ SubSeq(input, 6 * (i - 1) + 3, 6 * i) = SignerKey(i)
            /\ SubSeq(input, 6 * k + 1, 6 * k + 2) = last.sig
            /\ SubSeq(input, 6 * k + 3, 6 * k + 6) = G2_MINUS_ONE
            /\ last.out.hashed = IF last.op = "verify_augmented"
                                 THEN [i \in 1..k |-> SignerKey(i) \o last.message]
                                 ELSE <<last.message>>
            /\ last.out.calls.h2c = Len(last.out.hashed)

C25_Witness ==
    /\ PairingCalled
    /\ last.op = "verify_augmented"
    /\ SignerCount = 2
    /\ last.pks[1] = Registry[2] /\ last.pks[2] = Registry[1]
    /\ G2_ZERO \notin {last.pks[1], last.pks[2]}
    /\ last.sig # G1_ZERO

C25_WitnessThreshold ==
    /\ PairingCalled
    /\ last.op = "verify_a1_with_indices"
    /\ last.indices = <<1, 0>>
    /\ last.out.res = "Ok"

(***************************************************************************)
(* C26: aggregate_partials returns the same bytes for a non-empty list of  *)
(* valid G1 partial signatures and for every permutation of it; the sum is *)
(* accumulated left to right from the first element: the result over the   *)
(* first j elements is the host's sum of the result over the first j - 1   *)
(* and element j, one addition per element after the first.                *)
(***************************************************************************)
AggregatedInOrder == call.op = "aggregate in order"

C26_OrderIndependent ==
    AggregatedInOrder =>
        LET list == call.args.partials
            n == Len(list)
            sums == call.out.prefix
        IN  /\ call.out.permuted = call.out.given
            /\ call.out.given = sums[n]
            /\ fault # "add" =>
                  /\ call.out.given.res = "Ok"
                  /\ sums[1].bytes = list[1]
                  /\ \A j \in 2..n :
                        sums[j].bytes = alt_bn128_addition(sums[j - 1].bytes \o list[j]).val
                  /\ call.out.adds = n - 1
            /\ (fault = "add" /\ n > 1) =>
                  call.out.given.res = "AltBN128AddError" /\ call.out.adds = 1

C26_Witness ==
    /\ AggregatedInOrder
    /\ fault = "none"
    /\ call.args.via = "aggregate_partials"
    /\ call.args.partials = <<G1Exp(1), G1Exp(GROUP_ORDER - 1), G1Exp(2)>>
    /\ call.args.order = <<3, 1, 2>>
    /\ call.out.prefix[2].bytes = G1_ZERO
    /\ call.out.permuted = [res |-> "Ok", bytes |-> G1Exp(2)]

(***************************************************************************)
(* C28: for a message, a non-empty duplicate-free list of valid G2 public  *)
(* keys and a G1 point S, verify_fast_aggregate returns Ok exactly when    *)
(* G2Point::verify of S under PK_1 + ... + PK_k returns Ok.                *)
(***************************************************************************)
FastAggregateCompared == call.op = "fast aggregate under the summed key"

C28_FastIsSingleUnderSum ==
    FastAggregateCompared =>
        (call.out.fast = "Ok" <=> call.out.single.res = "Ok")

(***************************************************************************)
(* What the code does for C28: the two agree, error kinds included,        *)
(* whenever the sum of the keys is made without panic; when a key or a     *)
(* proper partial sum is the point at infinity the operator + panics,      *)
(* while verify_fast_aggregate returns its result.                         *)
(***************************************************************************)
C28_UnlessTheSumPanics ==
    FastAggregateCompared =>
        /\ call.out.single.res # "panic" => call.out.fast = call.out.single.res
        /\ call.out.single.res = "panic" <=>
              \E j \in 1..(Len(call.args.pks) - 1) :
                 \/ Sum("G2Point", SubSeq(call.args.pks, 1, j)) = Ok(G2_ZERO)
                 \/ call.args.pks[j + 1] = G2_ZERO

C28_Witness ==
    /\ FastAggregateCompared
    /\ fault = "none"
    /\ call.args.pks = <<G2Exp(1), G2Exp(GROUP_ORDER - 1), G2Exp(2)>>
    /\ call.out.fast = "Ok"
    /\ call.out.single.res = "panic"

(***************************************************************************)
(* C29: PrivKey::sign, utils::bls_partial_sign and                         *)
(* threshold::bls_partial_sign return the same bytes for the same scalar   *)
(* and message whenever they succeed, and fail on the same inputs; they    *)
(* differ only in the error reported when the multiplication oracle fails: *)
(* BLSSigningError from PrivKey::sign, AltBN128MulError from the other     *)
(* two.                                                                    *)
(***************************************************************************)
SignedThreeWays == call.op = "sign three ways"

C29_SignersAgree ==
    SignedThreeWays =>
        LET a == call.out.privkey
            b == call.out.utils
            c == call.out.threshold
        IN  /\ b = c
            /\ a.res = "Ok" <=> b.res = "Ok"
            /\ a.bytes = b.bytes
            /\ a.res = "Ok" =>
                  /\ Len(a.bytes) = 2 * FIELD_BYTES
                  /\ a.bytes = G1Exp(G1Log(call.out.hash.bytes)
                                     * from_be_bytes(call.args.sk))
            /\ a.res # "Ok" =>
                  IF call.out.hash.res = "Ok"
                  THEN fault = "mul" /\ a.res = "BLSSigningError"
                                    /\ b.res = "AltBN128MulError"
                  ELSE a.res = b.res /\ a.res = call.out.hash.res

C29_Witness ==
    /\ SignedThreeWays
    /\ fault = "mul"
    /\ call.args.sk = <<42>>
    /\ call.out.privkey.res = "BLSSigningError"
    /\ call.out.threshold.res = "AltBN128MulError"

C29_WitnessSigned ==
    /\ SignedThreeWays
    /\ call.args.sk = <<255>>
    /\ call.out.utils.res = "Ok"
    /\ call.out.utils.bytes # G1_ZERO

C29_WitnessUnhashed ==
    /\ SignedThreeWays
    /\ fault = "g1_decompress"
    /\ call.out.privkey.res = "HashToCurveError"
    /\ call.out.utils.res = "HashToCurveError"

(***************************************************************************)
(* C30: process_instruction returns InvalidInstructionData for empty data, *)
(* for an unknown tag and for tag 0x00 or 0x01 with data shorter than the  *)
(* tag, a public key and a signature, and never panics when slicing; with  *)
(* tag 0x00 it returns Ok only if the min-sig pairing check succeeds; with *)
(* tag 0x01 and data long enough it returns Ok for every public key,       *)
(* signature and message without a pairing check.                          *)
(***************************************************************************)
InstructionProcessed == call.op = "process_instruction"

MinLen == 1 + G2_COMPRESSED_LEN + G1_COMPRESSED_LEN

(* The pairing equation of min-sig on the three fields of the data.        *)
PairingCheck(ix) ==
    LET pk == alt_bn128_g2_decompress(SubSeq(ix, 2, 3))
        sig == alt_bn128_g1_decompress(SubSeq(ix, 4, 4))
        h == min_sig_try_hash_to_curve(SubSeq(ix, 5, Len(ix)))
    IN  /\ fault # "pairing"
        /\ h.ok /\ pk.ok /\ sig.ok
        /\ G2Valid(pk.val)
        /\ (G1Log(h.val) * G2Log(pk.val) + G1Log(sig.val) * G2Log(G2_MINUS_ONE))
               % GROUP_ORDER = 0

C30_ProgramDispatch ==
    InstructionProcessed =>
        LET ix == call.args.ix
            out == call.out
        IN  /\ out.res # "panic"
            /\ ix = <<>> => out.res = "InvalidInstructionData"
            /\ ix # <<>> =>
                  /\ ix[1] \notin {0, 1} => out.res = "InvalidInstructionData"
                  /\ (ix[1] \in {0, 1} /\ Len(ix) < MinLen)
                        => out.res = "InvalidInstructionData"
                  /\ (ix[1] = 0 /\ Len(ix) >= MinLen) =>
                        /\ out.res \in {"Ok", "MissingRequiredSignature"}
                        /\ out.res = "Ok" <=> PairingCheck(ix)
                        /\ out.res = "Ok" => out.pairings = 1
                  /\ (ix[1] = 1 /\ Len(ix) >= MinLen) =>
                        out.res = "Ok" /\ out.pairings = 0

C30_Witness ==
    /\ InstructionProcessed
    /\ fault = "none"
    /\ Len(call.args.ix) = MinLen + 1
    /\ call.args.ix[1] = 0
    /\ SubSeq(call.args.ix, 2, 3) = G2CompressedPoint_try_from_PrivKey(<<2>>).val
    /\ call.out = ProgramResult("Ok", 1)

C30_WitnessRejected ==
    /\ InstructionProcessed
    /\ fault = "none"
    /\ Len(call.args.ix) = MinLen
    /\ call.args.ix[1] = 0
    /\ call.out = ProgramResult("MissingRequiredSignature", 1)

C30_WitnessMinPk ==
    /\ InstructionProcessed
    /\ call.args.ix = <<1, 1, 1, 63>>
    /\ call.out = ProgramResult("Ok", 0)

C30_WitnessShort ==
    /\ InstructionProcessed
    /\ Len(call.args.ix) = MinLen - 1
    /\ call.args.ix[1] = 0
    /\ call.out.res = "InvalidInstructionData"
====
